---- MODULE Spec2Model ----
(***************************************************************************)
(* Verification model of the 3-layer diffusion programs (3layer and        *)
(* fit-layer): the Laplacian stencil convolve3, the layered forward        *)
(* solver, the mean-squared-error objective and the simplex fitting loop   *)
(* of the two main programs.                                               *)
(*                                                                         *)
(* Numbers.  The C code computes in IEEE doubles.  The model computes in   *)
(* exact rational arithmetic: a value is a pair <<n, d>> with d > 0 in     *)
(* lowest terms.  Rounding error, NaN and infinity are therefore outside   *)
(* the model; every algebraic step of the code is kept.                    *)
(***************************************************************************)
EXTENDS Integers, Sequences, FiniteSets, TLC

VARIABLES
    \* --- one call of the forward solver ---------------------------------
    prog,           \* "3layer" or "fit-layer": whose solver runs
    args,           \* the solver's arguments
    c,              \* concentration field c[i][j]
    k,              \* time-loop counter
    p,              \* probe array p[0..nt-1]
    pc,             \* "start", "loop", "done" or "error"
    image_counter,  \* 3layer: count of images written
    conc_out,       \* 3layer: the last image written (flat array)
    info,           \* 3layer: <<conc_max, conc_min>> of each image written
    \* --- one call of convolve3 -------------------------------------------
    conv,           \* its arguments M, N, a, scale1, scale2, invr, out
    \* --- the inverse-fit objective --------------------------------------
    param_struct,   \* the parameter struct the objective reads and fills
    pending,        \* the candidates still to be passed to the objective
    calls,          \* the objective calls made so far, oldest first
    \* --- main of 3layer and of fit-layer --------------------------------
    opt,            \* the options and input parameters of the run
    mpc,            \* "setup", "solve", "fill", "set", "loop", "report", "exit"
    grid,           \* dr, dt, nt, ns, nds, tmax, st, sd as main computes them
    fit_state,      \* the minimizer's state
    fit_iter,       \* iterations of the minimizer begun
    fit_status,     \* as main declares it: -1 until a call sets it
    fit_size,       \* -1 until an iteration sets it
    alpha_fit,      \* -1 until an iteration sets it
    theta_fit,      \* likewise
    kappa_fit,      \* likewise (fit-layer)
    mse,            \* likewise
    messages,       \* the warnings and errors printed
    outfile,        \* what the run appended to the output file
    exit_status,    \* of the process, -1 while it runs
    solves,         \* the parameters of every forward solve made
    \* --- blocks of the programs specified on their own ------------------
    image,          \* the block of the solver that writes an image
    sources,        \* the block of 3layer's main that adds the additional sources
    theory,         \* a call of rti_theory
    names,          \* the block of main that names the input and the output file
    geometry,       \* the block of main that places layers, source and probe on the grid
    resample        \* the block of fit-layer's objective that compares two curves

solverVars == <<prog, args, c, k, p, pc, image_counter, conc_out, info>>

convVars == <<conv>>

objVars == <<param_struct, pending, calls>>

mainVars ==
    <<opt, mpc, grid, fit_state, fit_iter, fit_status, fit_size, alpha_fit,
      theta_fit, kappa_fit, mse, messages, outfile, exit_status, solves>>

blockVars == <<image, sources, theory, names, geometry, resample>>

vars == <<solverVars, convVars, objVars, mainVars, blockVars>>

\* The variables of the other specifications, as each specification's
\* actions leave them.
notSolver == <<convVars, objVars, mainVars, blockVars>>

notConv == <<solverVars, objVars, mainVars, blockVars>>

notObj == <<solverVars, convVars, mainVars, blockVars>>

notMain == <<solverVars, convVars, pending, calls, blockVars>>

\* A specification gives the variables it does not use these values.
SolverIdle ==
    /\ prog = "none" /\ args = <<>> /\ c = <<>> /\ k = 0 /\ p = <<>> /\ pc = "idle"
    /\ image_counter = 0 /\ conc_out = <<>> /\ info = <<>>

ConvIdle == conv = <<>>

ImageIdle == image = <<>>

SourcesIdle == sources = <<>>

TheoryIdle == theory = <<>>

NamesIdle == names = <<>>

GeometryIdle == geometry = <<>>

ResampleIdle == resample = <<>>

BlocksIdle ==
    ImageIdle /\ SourcesIdle /\ TheoryIdle /\ NamesIdle /\ GeometryIdle /\ ResampleIdle

notImage ==
    <<solverVars, convVars, objVars, mainVars, sources, theory, names, geometry, resample>>

notSources ==
    <<solverVars, convVars, objVars, mainVars, image, theory, names, geometry, resample>>

notTheory ==
    <<solverVars, convVars, objVars, mainVars, image, sources, names, geometry, resample>>

notNames ==
    <<solverVars, convVars, objVars, mainVars, image, sources, theory, geometry, resample>>

notGeometry ==
    <<solverVars, convVars, objVars, mainVars, image, sources, theory, names, resample>>

notResample ==
    <<solverVars, convVars, objVars, mainVars, image, sources, theory, names, geometry>>

ObjIdle == param_struct = <<>> /\ pending = <<>> /\ calls = <<>>

MainIdle ==
    /\ opt = <<>> /\ mpc = "idle" /\ grid = <<>> /\ fit_state = <<>> /\ fit_iter = 0
    /\ fit_status = 0 /\ fit_size = <<>> /\ alpha_fit = <<>> /\ theta_fit = <<>>
    /\ kappa_fit = <<>> /\ mse = <<>> /\ messages = {} /\ outfile = <<>>
    /\ exit_status = 0 /\ solves = {}


(***************************************************************************)
(* Exact rational arithmetic (the model's stand-in for double).  A number  *)
(* is <<numerator, denominator>> in lowest terms with a positive           *)
(* denominator.  The operators with the prefix R bind each operand once    *)
(* (as the element of a singleton set) before they compute with it.        *)
(***************************************************************************)
Abs(x) == IF x < 0 THEN -x ELSE x

RECURSIVE GCD(_, _)
GCD(a, b) == IF b = 0 THEN a ELSE GCD(b, a % b)

Norm(n, d, g) == IF d < 0 THEN <<(-n) \div g, (-d) \div g>> ELSE <<n \div g, d \div g>>

Q(n, d) == CHOOSE r \in {Norm(a, b, GCD(Abs(a), Abs(b))) : a \in {n}, b \in {d}} : TRUE

R(n) == <<n, 1>>

Zero == R(0)
One == R(1)
Two == R(2)

AddQ(x, y, g) == Q(x[1] * (y[2] \div g) + y[1] * (x[2] \div g), (x[2] \div g) * y[2])

RAdd(x, y) == CHOOSE r \in {AddQ(a, b, GCD(a[2], b[2])) : a \in {x}, b \in {y}} : TRUE

RNeg(x) == CHOOSE r \in {<<-a[1], a[2]>> : a \in {x}} : TRUE

RSub(x, y) == RAdd(x, RNeg(y))

MulQ(x, y, g1, g2) == Q((x[1] \div g1) * (y[1] \div g2), (x[2] \div g2) * (y[2] \div g1))

RMul(x, y) ==
    CHOOSE r \in {MulQ(a, b, GCD(Abs(a[1]), b[2]), GCD(Abs(b[1]), a[2])) : a \in {x}, b \in {y}} : TRUE

Inverse(y) == IF y[1] < 0 THEN <<-y[2], -y[1]>> ELSE <<y[2], y[1]>>

RDiv(x, y) == CHOOSE r \in {RMul(x, Inverse(b)) : b \in {y}} : TRUE

RSign(x) == CHOOSE r \in {IF a[1] > 0 THEN 1 ELSE IF a[1] < 0 THEN -1 ELSE 0 : a \in {x}} : TRUE

\* The sign of a/b - c/d for b, d > 0, by the integer parts and then the
\* reciprocals of the fractional parts (no product of the four is formed).
RECURSIVE Compare(_, _, _, _)
Compare(a, b, cc, d) ==
    IF a \div b # cc \div d THEN (IF a \div b < cc \div d THEN -1 ELSE 1)
    ELSE IF a % b = 0 \/ cc % d = 0
         THEN (IF a % b = cc % d THEN 0 ELSE IF a % b = 0 THEN -1 ELSE 1)
         ELSE Compare(d, cc % d, b, a % b)

RCmp(x, y) == CHOOSE r \in {Compare(a[1], a[2], b[1], b[2]) : a \in {x}, b \in {y}} : TRUE

RLt(x, y) == RCmp(x, y) < 0

RLe(x, y) == RCmp(x, y) <= 0

RGt(x, y) == RLt(y, x)

RGe(x, y) == RLe(y, x)

RMax(x, y) == CHOOSE r \in {IF RGt(a, b) THEN a ELSE b : a \in {x}, b \in {y}} : TRUE

RMin(x, y) == CHOOSE r \in {IF RLt(a, b) THEN a ELSE b : a \in {x}, b \in {y}} : TRUE

SQR(x) == CHOOSE r \in {RMul(a, a) : a \in {x}} : TRUE

\* lround: round half away from zero.
Half(n, d) == (2 * n + d) \div (2 * d)

LRound(x) ==
    CHOOSE r \in {IF a[1] < 0 THEN -Half(-a[1], a[2]) ELSE Half(a[1], a[2]) : a \in {x}} : TRUE

(***************************************************************************)
(* convolve3: the scaled cylindrical Laplacian of an M x N field.          *)
(* A field is a function a[i][j], i in 0..M-1 (z), j in 0..N-1 (r);        *)
(* column 1 is r = 0.  The C function is a sequence of loops that write    *)
(* OUT; a later loop overwrites what an earlier one wrote.  Each loop is   *)
(* one Write below, applied in the source's order.                         *)
(***************************************************************************)
Write(out, M, N, upd) ==
    [i \in 0..(M - 1) |->
        [j \in 0..(N - 1) |->
            IF <<i, j>> \in DOMAIN upd THEN upd[<<i, j>>] ELSE out[i][j]]]

\* The cells (i, j) of one loop nest: i from i0 to i1, j from j0 to j1.
Cells(i0, i1, j0, j1) == (i0..i1) \X (j0..j1)

\* scale1 * (n4 + n3 + n2 + n1 - kk * centre): the second-derivative kernel,
\* with the neighbours the caller has in range.
Kernel(scale1, nbrs, kk, centre) == RMul(scale1, RSub(nbrs, RMul(R(kk), centre)))

\* scale2 * ((-left + right) * invr[j]): the (1/r) dc/dr term.
Deriv(scale2, left, right, invrj) ==
    RMul(scale2, RMul(RAdd(RNeg(left), right), invrj))

Sum3(x, y, z) == RAdd(RAdd(x, y), z)

Sum4(w, x, y, z) == RAdd(RAdd(RAdd(w, x), y), z)

\* Inner part, 1 <= i <= M-2, 2 <= j <= N-2.
ConvInner(a, scale1, scale2, invr, i, j) ==
    RAdd(Kernel(scale1, Sum4(a[i - 1][j], a[i][j - 1], a[i][j + 1], a[i + 1][j]),
                4, a[i][j]),
         Deriv(scale2, a[i][j - 1], a[i][j + 1], invr[j]))

\* The axis kernel with the centre weight of L (4) instead of L0's (6).
ConvAxisCentre4(a, scale1, i) ==
    Kernel(scale1,
           Sum4(a[i - 1][1], RMul(Two, a[i][0]), RMul(Two, a[i][2]), a[i + 1][1]),
           4, a[i][1])

\* j = 1, the r = 0 column: kernel L0, no first-derivative term.
ConvAxis(a, scale1, i) ==
    Kernel(scale1,
           Sum4(a[i - 1][1], RMul(Two, a[i][0]), RMul(Two, a[i][2]), a[i + 1][1]),
           6, a[i][1])

ConvAxisTop(a, scale1) ==
    Kernel(scale1, Sum3(RMul(Two, a[0][0]), RMul(Two, a[0][2]), a[1][1]),
           6, a[0][1])

ConvAxisBottom(a, scale1, M) ==
    Kernel(scale1,
           Sum3(a[M - 2][1], RMul(Two, a[M - 1][0]), RMul(Two, a[M - 1][2])),
           6, a[M - 1][1])

\* i = 0 and i = M-1, 1 <= j <= N-2.
ConvRowFirst(a, scale1, scale2, invr, j) ==
    RAdd(Kernel(scale1, Sum3(a[0][j - 1], a[0][j + 1], a[1][j]), 4, a[0][j]),
         Deriv(scale2, a[0][j - 1], a[0][j + 1], invr[j]))

ConvRowLast(a, scale1, scale2, invr, M, j) ==
    RAdd(Kernel(scale1, Sum3(a[M - 2][j], a[M - 1][j - 1], a[M - 1][j + 1]),
                4, a[M - 1][j]),
         Deriv(scale2, a[M - 1][j - 1], a[M - 1][j + 1], invr[j]))

\* j = 0 and j = N-1, 1 <= i <= M-2.
ConvColFirst(a, scale1, scale2, invr, i) ==
    RAdd(Kernel(scale1, Sum3(a[i - 1][0], a[i][1], a[i + 1][0]), 4, a[i][0]),
         RMul(scale2, RMul(a[i][1], invr[0])))

ConvColLast(a, scale1, scale2, invr, N, i) ==
    RAdd(Kernel(scale1, Sum3(a[i - 1][N - 1], a[i][N - 2], a[i + 1][N - 1]),
                4, a[i][N - 1]),
         RMul(scale2, RMul(RNeg(a[i][N - 2]), invr[N - 1])))

\* The four corners.
ConvCorner00(a, scale1, scale2, invr) ==
    RAdd(Kernel(scale1, RAdd(a[0][1], a[1][0]), 4, a[0][0]),
         RMul(scale2, RMul(a[0][1], invr[0])))

ConvCorner0N(a, scale1, scale2, invr, N) ==
    RAdd(Kernel(scale1, RAdd(a[0][N - 2], a[1][N - 1]), 4, a[0][N - 1]),
         RMul(scale2, RMul(RNeg(a[0][N - 2]), invr[N - 1])))

ConvCornerM0(a, scale1, scale2, invr, M) ==
    RAdd(Kernel(scale1, RAdd(a[M - 2][0], a[M - 1][1]), 4, a[M - 1][0]),
         RMul(scale2, RMul(a[M - 1][1], invr[0])))

ConvCornerMN(a, scale1, scale2, invr, M, N) ==
    RAdd(Kernel(scale1, RAdd(a[M - 2][N - 1], a[M - 1][N - 2]), 4, a[M - 1][N - 1]),
         RMul(scale2, RMul(RNeg(a[M - 1][N - 2]), invr[N - 1])))

\* The twelve loop nests in the source's order: the innermost Write is the
\* first loop, the outermost the last.
convolve3(M, N, a, scale1, scale2, invr, out) ==
    Write(Write(Write(Write(Write(Write(Write(Write(Write(Write(Write(Write(out,
        M, N, [ij \in Cells(1, M - 2, 2, N - 2) |-> ConvInner(a, scale1, scale2, invr, ij[1], ij[2])]),
        M, N, [ij \in Cells(1, M - 2, 1, 1) |-> ConvAxis(a, scale1, ij[1])]),
        M, N, [ij \in Cells(0, 0, 1, 1) |-> ConvAxisTop(a, scale1)]),
        M, N, [ij \in Cells(M - 1, M - 1, 1, 1) |-> ConvAxisBottom(a, scale1, M)]),
        M, N, [ij \in Cells(0, 0, 1, N - 2) |-> ConvRowFirst(a, scale1, scale2, invr, ij[2])]),
        M, N, [ij \in Cells(M - 1, M - 1, 1, N - 2) |-> ConvRowLast(a, scale1, scale2, invr, M, ij[2])]),
        M, N, [ij \in Cells(1, M - 2, 0, 0) |-> ConvColFirst(a, scale1, scale2, invr, ij[1])]),
        M, N, [ij \in Cells(1, M - 2, N - 1, N - 1) |-> ConvColLast(a, scale1, scale2, invr, N, ij[1])]),
        M, N, [ij \in Cells(0, 0, 0, 0) |-> ConvCorner00(a, scale1, scale2, invr)]),
        M, N, [ij \in Cells(0, 0, N - 1, N - 1) |-> ConvCorner0N(a, scale1, scale2, invr, N)]),
        M, N, [ij \in Cells(M - 1, M - 1, 0, 0) |-> ConvCornerM0(a, scale1, scale2, invr, M)]),
        M, N, [ij \in Cells(M - 1, M - 1, N - 1, N - 1) |-> ConvCornerMN(a, scale1, scale2, invr, M, N)])

\* create_array: N doubles, all 0.0 (here as an M x N field).
create_array(M, N) == [i \in 0..(M - 1) |-> [j \in 0..(N - 1) |-> Zero]]

\* The 1/r vector main builds: invr[0] = 1/dr, invr[1] = 0,
\* invr[j] = 1/((j-1)*dr) for j >= 2.
InvR(nr, dr) ==
    [j \in 0..nr |->
        IF j = 0 THEN RDiv(One, dr)
        ELSE IF j = 1 THEN Zero
        ELSE RDiv(One, RMul(R(j - 1), dr))]

(***************************************************************************)
(* The forward solver of fit-layer, calc_diffusion_curve_layer_fit_layer.  *)
(* f is the record of its arguments (nt, nz, nr, iprobe, jprobe, iz1, iz2, *)
(* nolayer, dt, dr, sd, st, the nine layer parameters, dfree, t, s, invr). *)
(***************************************************************************)
FL_dstar(theta, dfree) == RMul(theta, dfree)

FL_const1(theta, f) == RDiv(RMul(FL_dstar(theta, f.dfree), f.dt), SQR(f.dr))

FL_const2(theta, f) == RDiv(RMul(FL_dstar(theta, f.dfree), f.dt), RMul(Two, f.dr))

\* Interface value of one column: the weighted mean of the two rows that
\* face each other across a layer boundary.
FL_cb(dstar_lo, alpha_lo, c_lo, dstar_up, alpha_up, c_up) ==
    RDiv(RAdd(RMul(RMul(dstar_lo, alpha_lo), c_lo),
              RMul(RMul(dstar_up, alpha_up), c_up)),
         RAdd(RMul(dstar_lo, alpha_lo), RMul(dstar_up, alpha_up)))

FL_cb_sr(f, cc) ==
    [j \in 0..f.nr |->
        FL_cb(FL_dstar(f.theta_sr, f.dfree), f.alpha_sr, cc[f.iz1][j],
              FL_dstar(f.theta_sp, f.dfree), f.alpha_sp, cc[f.iz1 + 1][j])]

FL_cb_so(f, cc) ==
    [j \in 0..f.nr |->
        FL_cb(FL_dstar(f.theta_sp, f.dfree), f.alpha_sp, cc[f.iz2][j],
              FL_dstar(f.theta_so, f.dfree), f.alpha_so, cc[f.iz2 + 1][j])]

\* A ghost row that repeats the interface value.
FL_ghostFlat(cb, c_near) == cb

\* Extrapolated (ghost) row value next to an interface.
FL_ghost(cb, c_near) == RSub(RMul(Two, cb), c_near)

\* The SR sub-grid: rows 0..iz1 of cc and one ghost row above them.
FL_c_sr(f, cc) ==
    [i \in 0..(f.iz1 + 1) |->
        [j \in 0..f.nr |->
            IF i <= f.iz1 THEN cc[i][j]
            ELSE FL_ghost(FL_cb_sr(f, cc)[j], cc[f.iz1][j])]]

\* The SP sub-grid: a ghost row, rows iz1+1..iz2 of cc, a ghost row.
FL_c_sp(f, cc) ==
    [i \in 0..(f.iz2 - f.iz1 + 1) |->
        [j \in 0..f.nr |->
            IF i = 0 THEN FL_ghost(FL_cb_sr(f, cc)[j], cc[f.iz1 + 1][j])
            ELSE IF i <= f.iz2 - f.iz1 THEN cc[i + f.iz1][j]
            ELSE FL_ghost(FL_cb_so(f, cc)[j], cc[f.iz2][j])]]

\* The SO sub-grid: a ghost row and rows iz2+1..nz-1 of cc.
FL_c_so(f, cc) ==
    [i \in 0..(f.nz - f.iz2 - 1) |->
        [j \in 0..f.nr |->
            IF i = 0 THEN FL_ghost(FL_cb_so(f, cc)[j], cc[f.iz2 + 1][j])
            ELSE cc[i + f.iz2][j]]]

\* The three stencil calls of the 3-layer branch.
FL_dc_sr(f, cc) ==
    convolve3(f.iz1 + 2, f.nr + 1, FL_c_sr(f, cc), FL_const1(f.theta_sr, f),
              FL_const2(f.theta_sr, f), f.invr, create_array(f.iz1 + 2, f.nr + 1))

FL_dc_sp(f, cc) ==
    convolve3(f.iz2 - f.iz1 + 2, f.nr + 1, FL_c_sp(f, cc), FL_const1(f.theta_sp, f),
              FL_const2(f.theta_sp, f), f.invr,
              create_array(f.iz2 - f.iz1 + 2, f.nr + 1))

FL_dc_so(f, cc) ==
    convolve3(f.nz - f.iz2, f.nr + 1, FL_c_so(f, cc), FL_const1(f.theta_so, f),
              FL_const2(f.theta_so, f), f.invr, create_array(f.nz - f.iz2, f.nr + 1))

\* 3-layer branch: cc = c_layer + dc_layer on the rows of each layer.
FL_Layered(f, cc) ==
    [i \in 0..(f.nz - 1) |->
        [j \in 0..f.nr |->
            IF i <= f.iz1 THEN RAdd(FL_c_sr(f, cc)[i][j], FL_dc_sr(f, cc)[i][j])
            ELSE IF i <= f.iz2
                 THEN RAdd(FL_c_sp(f, cc)[i - f.iz1][j], FL_dc_sp(f, cc)[i - f.iz1][j])
                 ELSE RAdd(FL_c_so(f, cc)[i - f.iz2][j], FL_dc_so(f, cc)[i - f.iz2][j])]]

\* The stencil call of the 1-layer branch: the whole field, SR's constants.
FL_dc(f, cc) ==
    convolve3(f.nz, f.nr + 1, cc, FL_const1(f.theta_sr, f), FL_const2(f.theta_sr, f),
              f.invr, create_array(f.nz, f.nr + 1))

\* 1-layer branch: cc += dc.
FL_NoLayer(f, cc) ==
    [i \in 0..(f.nz - 1) |-> [j \in 0..f.nr |-> RAdd(cc[i][j], FL_dc(f, cc)[i][j])]]

\* if (nolayer) ... else ...
FL_Diffuse(f, cc) == IF f.nolayer THEN FL_NoLayer(f, cc) ELSE FL_Layered(f, cc)

\* The source on for one step more: t[kk] - dt/2.0 < sd + st.
FL_SourceOnThrough(f, kk) == RLt(RSub(f.t[kk], RDiv(f.dt, Two)), RAdd(f.sd, f.st))

\* if (t[kk] + dt/2.0 < sd + st)
FL_SourceOn(f, kk) == RLt(RAdd(f.t[kk], RDiv(f.dt, Two)), RAdd(f.sd, f.st))

FL_AddSource(f, cc, kk) ==
    IF FL_SourceOn(f, kk)
    THEN [i \in 0..(f.nz - 1) |-> [j \in 0..f.nr |-> RAdd(cc[i][j], f.s[i][j])]]
    ELSE cc

\* Clearance at a rate that does not depend on the concentration:
\* cc -= kappa_layer * dt.
ClearanceAbsolute(f, cc) ==
    [i \in 0..(f.nz - 1) |->
        [j \in 0..f.nr |->
            IF i <= f.iz1 THEN RSub(cc[i][j], RMul(f.kappa_sr, f.dt))
            ELSE IF i <= f.iz2 THEN RSub(cc[i][j], RMul(f.kappa_sp, f.dt))
                 ELSE RSub(cc[i][j], RMul(f.kappa_so, f.dt))]]

\* cc *= (1 - kappa_layer * dt), the layer taken from the row.
FL_Clearance(f, cc) ==
    [i \in 0..(f.nz - 1) |->
        [j \in 0..f.nr |->
            IF i <= f.iz1
            THEN RMul(cc[i][j], RSub(One, RMul(f.kappa_sr, f.dt)))
            ELSE IF i <= f.iz2
                 THEN RMul(cc[i][j], RSub(One, RMul(f.kappa_sp, f.dt)))
                 ELSE RMul(cc[i][j], RSub(One, RMul(f.kappa_so, f.dt)))]]

\* A time step that leaves column 0 as the stencil and the source left it.
KeepColumns(f, cc) == cc

\* cc[INDEX(i,0)] = cc[INDEX(i,2)] for every row.
FL_Symmetry(f, cc) ==
    [i \in 0..(f.nz - 1) |-> [j \in 0..f.nr |-> IF j = 0 THEN cc[i][2] ELSE cc[i][j]]]

\* One pass of the time loop after the probe sample was taken.
FL_Step(f, cc, kk) ==
    FL_Symmetry(f, FL_Clearance(f, FL_AddSource(f, FL_Diffuse(f, cc), kk)))

FL_nds(f) == LRound(RDiv(f.sd, f.dt))

\* The check made with the delay beyond the run only.
FL_DelayBeyond(f) == FL_nds(f) > f.nt

\* if (nds >= nt) error(...)
FL_DelayError(f) == FL_nds(f) >= f.nt

(***************************************************************************)
(* The forward solver of 3layer, calc_diffusion_curve_layer.  f is the      *)
(* record of its arguments: those of the fit-layer solver (sd and st are   *)
(* its sdelay and sduration) and image_spacing.                            *)
(***************************************************************************)
\* 3layer's convolve3 (declared in header.h) is defined in a file that is
\* not under src/.  The specification has one Laplacian stencil, used by
\* both programs, so the call is modelled as fit-layer's convolve3.
L3_convolve3(M, N, a, scale1, scale2, invr, out) ==
    convolve3(M, N, a, scale1, scale2, invr, out)

L3_dstar(theta, dfree) == RMul(theta, dfree)

L3_const1(theta, f) == RDiv(RMul(L3_dstar(theta, f.dfree), f.dt), SQR(f.dr))

L3_const2(theta, f) == RDiv(RMul(L3_dstar(theta, f.dfree), f.dt), RMul(Two, f.dr))

\* An interface value that ignores the weights of the two layers.
L3_cbMean(dstar_lo, alpha_lo, c_lo, dstar_up, alpha_up, c_up) ==
    RDiv(RAdd(c_lo, c_up), Two)

\* Interface value of one column: the weighted mean of the two rows that
\* face each other across a layer boundary.
L3_cb(dstar_lo, alpha_lo, c_lo, dstar_up, alpha_up, c_up) ==
    RDiv(RAdd(RMul(RMul(dstar_lo, alpha_lo), c_lo),
              RMul(RMul(dstar_up, alpha_up), c_up)),
         RAdd(RMul(dstar_lo, alpha_lo), RMul(dstar_up, alpha_up)))

L3_cb_sr(f, cc) ==
    [j \in 0..f.nr |->
        L3_cb(L3_dstar(f.theta_sr, f.dfree), f.alpha_sr, cc[f.iz1][j],
              L3_dstar(f.theta_sp, f.dfree), f.alpha_sp, cc[f.iz1 + 1][j])]

L3_cb_so(f, cc) ==
    [j \in 0..f.nr |->
        L3_cb(L3_dstar(f.theta_sp, f.dfree), f.alpha_sp, cc[f.iz2][j],
              L3_dstar(f.theta_so, f.dfree), f.alpha_so, cc[f.iz2 + 1][j])]

\* Extrapolated (ghost) row value next to an interface.
L3_ghost(cb, c_near) == RSub(RMul(Two, cb), c_near)

\* The SR sub-grid: rows 0..iz1 of cc and one ghost row above them.
L3_c_sr(f, cc) ==
    [i \in 0..(f.iz1 + 1) |->
        [j \in 0..f.nr |->
            IF i <= f.iz1 THEN cc[i][j]
            ELSE L3_ghost(L3_cb_sr(f, cc)[j], cc[f.iz1][j])]]

\* The SP sub-grid: a ghost row, rows iz1+1..iz2 of cc, a ghost row.
L3_c_sp(f, cc) ==
    [i \in 0..(f.iz2 - f.iz1 + 1) |->
        [j \in 0..f.nr |->
            IF i = 0 THEN L3_ghost(L3_cb_sr(f, cc)[j], cc[f.iz1 + 1][j])
            ELSE IF i <= f.iz2 - f.iz1 THEN cc[i + f.iz1][j]
            ELSE L3_ghost(L3_cb_so(f, cc)[j], cc[f.iz2][j])]]

\* The SO sub-grid: a ghost row and rows iz2+1..nz-1 of cc.
L3_c_so(f, cc) ==
    [i \in 0..(f.nz - f.iz2 - 1) |->
        [j \in 0..f.nr |->
            IF i = 0 THEN L3_ghost(L3_cb_so(f, cc)[j], cc[f.iz2 + 1][j])
            ELSE cc[i + f.iz2][j]]]

\* The three stencil calls of the 3-layer branch.
L3_dc_sr(f, cc) ==
    L3_convolve3(f.iz1 + 2, f.nr + 1, L3_c_sr(f, cc), L3_const1(f.theta_sr, f),
                 L3_const2(f.theta_sr, f), f.invr, create_array(f.iz1 + 2, f.nr + 1))

L3_dc_sp(f, cc) ==
    L3_convolve3(f.iz2 - f.iz1 + 2, f.nr + 1, L3_c_sp(f, cc), L3_const1(f.theta_sp, f),
                 L3_const2(f.theta_sp, f), f.invr,
                 create_array(f.iz2 - f.iz1 + 2, f.nr + 1))

L3_dc_so(f, cc) ==
    L3_convolve3(f.nz - f.iz2, f.nr + 1, L3_c_so(f, cc), L3_const1(f.theta_so, f),
                 L3_const2(f.theta_so, f), f.invr, create_array(f.nz - f.iz2, f.nr + 1))

\* 3-layer branch: cc = c_layer + dc_layer on the rows of each layer.
L3_Layered(f, cc) ==
    [i \in 0..(f.nz - 1) |->
        [j \in 0..f.nr |->
            IF i <= f.iz1 THEN RAdd(L3_c_sr(f, cc)[i][j], L3_dc_sr(f, cc)[i][j])
            ELSE IF i <= f.iz2
                    THEN RAdd(L3_c_sp(f, cc)[i - f.iz1][j], L3_dc_sp(f, cc)[i - f.iz1][j])
                    ELSE RAdd(L3_c_so(f, cc)[i - f.iz2][j], L3_dc_so(f, cc)[i - f.iz2][j])]]

\* The stencil call of the 1-layer branch: the whole field, SR's constants.
L3_dc(f, cc) ==
    L3_convolve3(f.nz, f.nr + 1, cc, L3_const1(f.theta_sr, f), L3_const2(f.theta_sr, f),
                 f.invr, create_array(f.nz, f.nr + 1))

\* 1-layer branch: cc += dc.
L3_NoLayer(f, cc) ==
    [i \in 0..(f.nz - 1) |-> [j \in 0..f.nr |-> RAdd(cc[i][j], L3_dc(f, cc)[i][j])]]

\* if (nolayer) ... else ...
L3_Diffuse(f, cc) == IF f.nolayer THEN L3_NoLayer(f, cc) ELSE L3_Layered(f, cc)

\* if (t[kk] + dt/2.0 < sd + st)
L3_SourceOn(f, kk) == RLt(RAdd(f.t[kk], RDiv(f.dt, Two)), RAdd(f.sd, f.st))

\* The source added in every pass, whatever the time.
L3_AddSourceAlways(f, cc, kk) ==
    [i \in 0..(f.nz - 1) |-> [j \in 0..f.nr |-> RAdd(cc[i][j], f.s[i][j])]]

L3_AddSource(f, cc, kk) ==
    IF L3_SourceOn(f, kk)
    THEN [i \in 0..(f.nz - 1) |-> [j \in 0..f.nr |-> RAdd(cc[i][j], f.s[i][j])]]
    ELSE cc

\* cc *= (1 - kappa_layer * dt), the layer taken from the row.
L3_Clearance(f, cc) ==
    [i \in 0..(f.nz - 1) |->
        [j \in 0..f.nr |->
            IF i <= f.iz1
            THEN RMul(cc[i][j], RSub(One, RMul(f.kappa_sr, f.dt)))
            ELSE IF i <= f.iz2
                 THEN RMul(cc[i][j], RSub(One, RMul(f.kappa_sp, f.dt)))
                 ELSE RMul(cc[i][j], RSub(One, RMul(f.kappa_so, f.dt)))]]

\* cc[INDEX(i,0)] = cc[INDEX(i,2)] for every row.
L3_Symmetry(f, cc) ==
    [i \in 0..(f.nz - 1) |-> [j \in 0..f.nr |-> IF j = 0 THEN cc[i][2] ELSE cc[i][j]]]

\* A pass that clears before it adds the source.
L3_StepSourceLast(f, cc, kk) ==
    L3_Symmetry(f, L3_AddSource(f, L3_Clearance(f, L3_Diffuse(f, cc)), kk))

\* One pass of the time loop after the probe sample was taken.
L3_Step(f, cc, kk) ==
    L3_Symmetry(f, L3_Clearance(f, L3_AddSource(f, L3_Diffuse(f, cc), kk)))

L3_nds(f) == LRound(RDiv(f.sd, f.dt))

\* if (nds >= nt) error(...)
L3_DelayError(f) == L3_nds(f) >= f.nt

(***************************************************************************)
(* 3layer only: the optional concentration image.  conc_out is the flat    *)
(* nz x (2*nr-1) array; the loops run j = 0..nr outside, i = 0..nz-1       *)
(* inside, and each (i, j) writes INDEX_FULL_P and then INDEX_FULL_N.      *)
(***************************************************************************)
INDEX_FULL_P(nr, i, j) == i * (2 * nr - 1) + nr + j - 2

INDEX_FULL_N(nr, i, j) == i * (2 * nr - 1) + nr - j

\* The image after the copy loops: the last write to an index wins, and a
\* later (j, i) in loop order overwrites an earlier one.
L3_ImageOrder(f, i, j) == j * f.nz + i

L3_Writers(f, x) ==
    {ij \in (0..(f.nz - 1)) \X (0..f.nr) :
        INDEX_FULL_P(f.nr, ij[1], ij[2]) = x \/ INDEX_FULL_N(f.nr, ij[1], ij[2]) = x}

L3_LastWriter(f, x) ==
    CHOOSE ij \in L3_Writers(f, x) :
        \A o \in L3_Writers(f, x) :
            L3_ImageOrder(f, o[1], o[2]) <= L3_ImageOrder(f, ij[1], ij[2])

L3_Image(f, cc, old) ==
    [x \in DOMAIN old |->
        IF L3_Writers(f, x) = {} THEN old[x]
        ELSE cc[L3_LastWriter(f, x)[1]][L3_LastWriter(f, x)[2]]]

\* conc_min and conc_max: the running MIN / MAX over all cells of c.
L3_Values(f, cc) == {cc[ij[1]][ij[2]] : ij \in (0..(f.nz - 1)) \X (0..f.nr)}

L3_conc_min(f, cc) == CHOOSE v \in L3_Values(f, cc) : \A w \in L3_Values(f, cc) : RLe(v, w)

L3_conc_max(f, cc) == CHOOSE v \in L3_Values(f, cc) : \A w \in L3_Values(f, cc) : RGe(v, w)

\* time = (k - nds) * dt;  if (time >= image_counter * image_spacing)
L3_ImageDue(f, kk, counter) ==
    /\ RGt(f.image_spacing, Zero)
    /\ RGe(RMul(R(kk - L3_nds(f)), f.dt), RMul(R(counter), f.image_spacing))

(***************************************************************************)
(* Inputs of the solver specification.                                     *)
(***************************************************************************)
MaxNt == 3

Programs == {"3layer", "fit-layer"}

\* Grid geometries: nz rows, nr + 1 columns, layer boundaries iz1 < iz2.
Geometries ==
    { [nz |-> 4, nr |-> 2, iz1 |-> 0, iz2 |-> 2],
      [nz |-> 5, nr |-> 2, iz1 |-> 0, iz2 |-> 3],
      [nz |-> 5, nr |-> 3, iz1 |-> 1, iz2 |-> 3] }

\* Layer parameter sets (alpha, theta, kappa per layer).  The interface
\* weights theta*alpha of neighbouring layers are in ratio 1:1 or 1:3.
Uniform ==
    [alpha_sr |-> Q(1, 2), theta_sr |-> Q(1, 2), kappa_sr |-> Zero,
     alpha_sp |-> Q(1, 2), theta_sp |-> Q(1, 2), kappa_sp |-> Zero,
     alpha_so |-> Q(1, 2), theta_so |-> Q(1, 2), kappa_so |-> Zero]

Contrast ==
    [alpha_sr |-> Q(1, 3), theta_sr |-> R(1), kappa_sr |-> Zero,
     alpha_sp |-> R(1), theta_sp |-> R(1), kappa_sp |-> R(1),
     alpha_so |-> Q(2, 3), theta_so |-> Q(1, 2), kappa_so |-> Zero]

Cleared ==
    [alpha_sr |-> Q(1, 2), theta_sr |-> R(1), kappa_sr |-> R(1),
     alpha_sp |-> Q(1, 6), theta_sp |-> R(1), kappa_sp |-> Zero,
     alpha_so |-> Q(1, 2), theta_so |-> R(1), kappa_so |-> Q(3, 2)]

\* Media: layer parameters with a discretization (dr, dt).  dfree is 1, so
\* dfree*dt/dr^2 is 1/8, 1/8, 1/7, 1/2, 1/2, 1/8.
Media ==
    { [l |-> Uniform, dr |-> R(1), dt |-> Q(1, 8)],
      [l |-> Contrast, dr |-> R(1), dt |-> Q(1, 8)],
      [l |-> Contrast, dr |-> R(1), dt |-> Q(1, 7)],
      [l |-> Uniform, dr |-> R(1), dt |-> Q(1, 2)],
      [l |-> Contrast, dr |-> R(1), dt |-> Q(1, 2)],
      [l |-> Cleared, dr |-> R(2), dt |-> Q(1, 2)] }

\* Source fields: amount 1 at the cells named.
SourceCells(g) ==
    { {<<g.iz1, 1>>}, {<<g.iz1 + 1, 0>>}, {<<g.iz1 + 1, 1>>, <<g.iz2, 2>>} }

SourceField(g, cells) ==
    [i \in 0..(g.nz - 1) |-> [j \in 0..g.nr |-> IF <<i, j>> \in cells THEN One ELSE Zero]]

\* Source delay and duration in steps.
Timings == { [nds |-> 0, ns |-> 0], [nds |-> 0, ns |-> 1], [nds |-> 1, ns |-> 2] }

\* t[k] = dt * k
TimeArray(nt, dt) == [kk \in 0..(nt - 1) |-> RMul(dt, R(kk))]

SolverArgs(g, m, cells, tm, nt, nolayer, spacing) ==
    [nt |-> nt, nz |-> g.nz, nr |-> g.nr, iprobe |-> g.iz2, jprobe |-> 1,
     iz1 |-> g.iz1, iz2 |-> g.iz2, nolayer |-> nolayer,
     dt |-> m.dt, dr |-> m.dr,
     sd |-> RMul(m.dt, R(tm.nds)), st |-> RMul(m.dt, R(tm.ns)),
     alpha_so |-> m.l.alpha_so, theta_so |-> m.l.theta_so, kappa_so |-> m.l.kappa_so,
     alpha_sp |-> m.l.alpha_sp, theta_sp |-> m.l.theta_sp, kappa_sp |-> m.l.kappa_sp,
     alpha_sr |-> m.l.alpha_sr, theta_sr |-> m.l.theta_sr, kappa_sr |-> m.l.kappa_sr,
     dfree |-> One, t |-> TimeArray(nt, m.dt), s |-> SourceField(g, cells),
     invr |-> InvR(g.nr, m.dr),
     image_spacing |-> IF spacing = 0 THEN R(-1) ELSE RMul(m.dt, R(spacing))]

(***************************************************************************)
(* Specification Spec: one call of the forward solver, one action per      *)
(* pass of its time loop.                                                  *)
(***************************************************************************)
\* p is the caller's array.  3layer's main passes it as create_array made
\* it; fit-layer's objective passes the array of the solve before, whose
\* samples are here all Stale.
Stale == R(7)

Init ==
    /\ prog \in Programs
    /\ \E g \in Geometries, m \in Media, tm \in Timings,
          nt \in 1..MaxNt, nolayer \in BOOLEAN, spacing \in 0..2 :
          \E cells \in SourceCells(g) :
            /\ prog = "fit-layer" => spacing = 0
            /\ args = SolverArgs(g, m, cells, tm, nt, nolayer, spacing)
    /\ c = create_array(args.nz, args.nr + 1)
    /\ k = 0
    /\ p = [kk \in 0..(args.nt - 1) |-> IF prog = "fit-layer" THEN Stale ELSE Zero]
    /\ pc = "start"
    /\ image_counter = 0
    /\ conc_out = <<>>
    /\ info = <<>>
    /\ ConvIdle
    /\ ObjIdle
    /\ MainIdle
    /\ BlocksIdle

\* c = s; nds = lround(sdelay/dt); the fatal check; p[k] = 0 for k < nds.
FL_Begin ==
    /\ prog = "fit-layer"
    /\ pc = "start"
    /\ c' = args.s
    /\ IF FL_DelayError(args)
       THEN /\ pc' = "error"
            /\ UNCHANGED <<k, p>>
       ELSE /\ pc' = "loop"
            /\ k' = FL_nds(args)
            /\ p' = [kk \in 0..(args.nt - 1) |-> IF kk < FL_nds(args) THEN Zero ELSE p[kk]]
    /\ UNCHANGED <<prog, args, image_counter, conc_out, info>>
    /\ UNCHANGED notSolver

\* A pass that takes the probe sample after it has advanced the field.
FL_TimeStepAfter ==
    /\ prog = "fit-layer"
    /\ pc = "loop"
    /\ k < args.nt
    /\ c' = FL_Step(args, c, k)
    /\ p' = [p EXCEPT ![k] = c'[args.iprobe][args.jprobe]]
    /\ k' = k + 1
    /\ UNCHANGED <<prog, args, pc, image_counter, conc_out, info>>
    /\ UNCHANGED notSolver

FL_TimeStep ==
    /\ prog = "fit-layer"
    /\ pc = "loop"
    /\ k < args.nt
    /\ p' = [p EXCEPT ![k] = c[args.iprobe][args.jprobe]]
    /\ c' = FL_Step(args, c, k)
    /\ k' = k + 1
    /\ UNCHANGED <<prog, args, pc, image_counter, conc_out, info>>
    /\ UNCHANGED notSolver

FL_Return ==
    /\ prog = "fit-layer"
    /\ pc = "loop"
    /\ k >= args.nt
    /\ pc' = "done"
    /\ UNCHANGED <<prog, args, c, k, p, image_counter, conc_out, info>>
    /\ UNCHANGED notSolver

L3_Begin ==
    /\ prog = "3layer"
    /\ pc = "start"
    /\ c' = args.s
    /\ IF L3_DelayError(args)
       THEN /\ pc' = "error"
            /\ UNCHANGED <<k, p, conc_out>>
       ELSE /\ pc' = "loop"
            /\ k' = L3_nds(args)
            /\ p' = [kk \in 0..(args.nt - 1) |-> IF kk < L3_nds(args) THEN Zero ELSE p[kk]]
            /\ conc_out' = IF RGt(args.image_spacing, Zero)
                           THEN [x \in 0..(args.nz * (2 * args.nr - 1) - 1) |-> Zero]
                           ELSE conc_out
    /\ image_counter' = 0
    /\ UNCHANGED <<prog, args, info>>
    /\ UNCHANGED notSolver

L3_TimeStep ==
    /\ prog = "3layer"
    /\ pc = "loop"
    /\ k < args.nt
    /\ IF L3_ImageDue(args, k, image_counter)
       THEN /\ conc_out' = L3_Image(args, c, conc_out)
            /\ info' = Append(info, <<L3_conc_max(args, c), L3_conc_min(args, c)>>)
            /\ image_counter' = image_counter + 1
       ELSE UNCHANGED <<conc_out, info, image_counter>>
    /\ p' = [p EXCEPT ![k] = c[args.iprobe][args.jprobe]]
    /\ c' = L3_Step(args, c, k)
    /\ k' = k + 1
    /\ UNCHANGED <<prog, args, pc>>
    /\ UNCHANGED notSolver

L3_Return ==
    /\ prog = "3layer"
    /\ pc = "loop"
    /\ k >= args.nt
    /\ pc' = "done"
    /\ UNCHANGED <<prog, args, c, k, p, image_counter, conc_out, info>>
    /\ UNCHANGED notSolver

Next ==
    \/ FL_Begin
    \/ FL_TimeStep
    \/ FL_Return
    \/ L3_Begin
    \/ L3_TimeStep
    \/ L3_Return

Spec == Init /\ [][Next]_vars

(***************************************************************************)
(* Properties of the forward solver (specification Spec).                  *)
(***************************************************************************)
Rows == 0..(args.nz - 1)

Columns == 0..args.nr

\* At least one pass of the time loop has run.
Stepped == pc \in {"loop", "done"} /\ k > FL_nds(args)

\* C1: after every time step, in layered and in homogeneous mode, with the
\* source on or off and any clearance, column 0 equals column 2 in every row.
C1_Symmetry == Stepped => \A i \in Rows : c[i][0] = c[i][2]

\* A step has run on a source field whose columns 0 and 2 differ in row i,
\* and column 2 of that row is not zero.
C1_Witness ==
    /\ Stepped
    /\ \E i \in Rows : args.s[i][0] # args.s[i][2] /\ c[i][2] # Zero

NonNegativeSource == \A i \in Rows : \A j \in Columns : RGe(args.s[i][j], Zero)

KappaInRange ==
    \A kappa \in {args.kappa_sr, args.kappa_sp, args.kappa_so} :
        RGe(kappa, Zero) /\ RLt(RMul(kappa, args.dt), One)

NonNegativeField == \A i \in Rows : \A j \in Columns : RGe(c[i][j], Zero)

\* theta * dfree * dt / dr^2 of every layer is at most 1/7, and every alpha
\* and theta is positive.
StableStep ==
    /\ \A theta \in {args.theta_sr, args.theta_sp, args.theta_so} :
          RGt(theta, Zero) /\ RLe(FL_const1(theta, args), Q(1, 7))
    /\ \A alpha \in {args.alpha_sr, args.alpha_sp, args.alpha_so} : RGt(alpha, Zero)

\* C2 as stated: with a non-negative source (which is the initial field) and
\* every kappa in [0, 1/dt), every cell is >= 0 after every time step.
C2_PositivityAnyStep == (Stepped /\ NonNegativeSource /\ KappaInRange) => NonNegativeField

\* C2, amended: the same, provided also that alpha and theta are positive and
\* theta * dfree * dt / dr^2 <= 1/7 in every layer.
C2_Positivity ==
    (Stepped /\ NonNegativeSource /\ KappaInRange /\ StableStep) => NonNegativeField

\* Two layered steps at theta * dfree * dt / dr^2 = 1/7 with clearance in
\* the middle layer, and the probe cell holds a positive value.
C2_Witness ==
    /\ Stepped /\ NonNegativeSource /\ KappaInRange /\ StableStep
    /\ ~args.nolayer
    /\ k >= FL_nds(args) + 2
    /\ FL_const1(args.theta_sp, args) = Q(1, 7)
    /\ RGt(args.kappa_sp, Zero)
    /\ RGt(c[args.iprobe][args.jprobe], Zero)

(***************************************************************************)
(* Specification SpecConv: one call of convolve3 on an input drawn from    *)
(* small sets.                                                             *)
(***************************************************************************)
MaxM == 4
MaxN == 5

ConstantField(M, N, v) == [i \in 0..(M - 1) |-> [j \in 0..(N - 1) |-> v]]

ImpulseField(M, N, i0, j0) ==
    [i \in 0..(M - 1) |-> [j \in 0..(N - 1) |-> IF i = i0 /\ j = j0 THEN One ELSE Zero]]

RampField(M, N) == [i \in 0..(M - 1) |-> [j \in 0..(N - 1) |-> R(i + 2 * j)]]

ConvFields(M, N) ==
    {ConstantField(M, N, v) : v \in {Zero, One, R(-2), Q(1, 2)}}
        \cup {ImpulseField(M, N, ij[1], ij[2]) : ij \in Cells(0, M - 1, 0, N - 1)}
        \cup {RampField(M, N)}

ConvInit ==
    /\ \E M \in 2..MaxM, N \in 3..MaxN, scale1 \in {Q(1, 8), One},
          scale2 \in {Q(1, 16), Q(1, 2)}, dr \in {One, Two}, old \in {Zero, One} :
          \E a \in ConvFields(M, N) :
            conv = [M |-> M, N |-> N, a |-> a, scale1 |-> scale1, scale2 |-> scale2,
                    invr |-> InvR(N - 1, dr), out |-> ConstantField(M, N, old),
                    called |-> FALSE]
    /\ SolverIdle
    /\ ObjIdle
    /\ MainIdle
    /\ BlocksIdle

ConvCall ==
    /\ ~conv.called
    /\ conv' = [conv EXCEPT
                  !.out = convolve3(conv.M, conv.N, conv.a, conv.scale1, conv.scale2,
                                    conv.invr, conv.out),
                  !.called = TRUE]
    /\ UNCHANGED notConv

ConvNext == ConvCall

SpecConv == ConvInit /\ [][ConvNext]_vars

IsConstantField == \A ij \in Cells(0, conv.M - 1, 0, conv.N - 1) : conv.a[ij[1]][ij[2]] = conv.a[0][0]

\* C3 as stated: on a field whose entries are all equal, every entry of the
\* output (interior, axis column, edge rows, edge columns, corners) is zero.
C3_ConstantAllZero ==
    (conv.called /\ IsConstantField) =>
        \A ij \in Cells(0, conv.M - 1, 0, conv.N - 1) : conv.out[ij[1]][ij[2]] = Zero

\* C3, amended: on a field whose entries are all equal, the output is zero at
\* every cell that is not on an edge row or edge column (1 <= i <= M-2,
\* 1 <= j <= N-2, the axis column j = 1 included).
C3_ConstantInteriorZero ==
    (conv.called /\ IsConstantField) =>
        \A ij \in Cells(1, conv.M - 2, 1, conv.N - 2) : conv.out[ij[1]][ij[2]] = Zero

\* A constant non-zero field with interior cells on and off the axis has been
\* convolved; the output was overwritten and its corner is not zero.
C3_Witness ==
    /\ conv.called /\ IsConstantField
    /\ conv.a[0][0] # Zero
    /\ conv.M >= 3 /\ conv.N >= 4
    /\ conv.out[1][1] = Zero /\ conv.out[1][2] = Zero
    /\ conv.out[0][0] # Zero

\* A floor for negative values only.
FitFloorAtZero(v) == IF RLe(v, Zero) THEN Q(1, 1000) ELSE v

(***************************************************************************)
(* The objective of fit-layer, calc_mse_fit_layer.  x is the candidate     *)
(* <<alpha_sp, theta_sp, kappa_sp>> (x[1] is gsl_vector_get(x, 0)) and ps  *)
(* the parameter struct; the call changes ps and returns a number.         *)
(***************************************************************************)
\* if (v <= 0.001) v = 0.001;
FitFloor(v) == IF RLe(v, Q(1, 1000)) THEN Q(1, 1000) ELSE v

\* A copy that leaves kappa_sr and kappa_so alone whatever the mode.
FL_CandidateOneLayer(x, ps) ==
    [ps EXCEPT !.alpha_sp = FitFloor(x[1]),
               !.theta_sp = FitFloor(x[2]),
               !.kappa_sp = x[3]]

\* The candidate copied into the struct, alpha and theta floored, kappa
\* copied to the other layers under opt_global_kappa.
FL_Candidate(x, ps) ==
    [ps EXCEPT !.alpha_sp = FitFloor(x[1]),
               !.theta_sp = FitFloor(x[2]),
               !.kappa_sp = x[3],
               !.kappa_sr = IF ps.opt_global_kappa THEN x[3] ELSE @,
               !.kappa_so = IF ps.opt_global_kappa THEN x[3] ELSE @]

\* The field at the start of pass kk of the solver's time loop.
RECURSIVE FL_Field(_, _)
FL_Field(f, kk) ==
    IF kk <= FL_nds(f) THEN f.s ELSE FL_Step(f, FL_Field(f, kk - 1), kk - 1)

\* A probe array to which the samples are added.
FL_CurveAdded(f) ==
    [kk \in 0..(f.nt - 1) |->
        IF kk < FL_nds(f) THEN Zero
        ELSE RAdd(f.p[kk], FL_Field(f, kk)[f.iprobe][f.jprobe])]

\* The probe array the solver returns: 0 before the source delay, then the
\* field at the probe at the start of each pass.
FL_Curve(f) ==
    [kk \in 0..(f.nt - 1) |->
        IF kk < FL_nds(f) THEN Zero ELSE FL_Field(f, kk)[f.iprobe][f.jprobe]]

\* The solver's fatal check: the source delay is not inside the run.
FL_Fatal(f) == FL_nds(f) >= f.nt

\* The forward solve of the struct's parameters, its curve left in ps.p.
FL_Solved(ps) == [ps EXCEPT !.p = FL_Curve(ps)]

\* nt > nd: the model curve is sampled at lround(i * nt/nd), i = 1..nd-1.
FL_SqErrLong(ps, i) ==
    SQR(RSub(ps.p[LRound(RMul(R(i), Q(ps.nt, ps.nd)))], ps.p_data[i]))

RECURSIVE FL_SumLong(_, _)
FL_SumLong(ps, i) ==
    IF i < 1 THEN Zero ELSE RAdd(FL_SumLong(ps, i - 1), FL_SqErrLong(ps, i))

\* nt <= nd: the data are sampled at lround(i * nd/nt), i = 1..nt-1.
FL_SqErrShort(ps, i) ==
    SQR(RSub(ps.p[i], ps.p_data[LRound(RMul(R(i), Q(ps.nd, ps.nt)))]))

RECURSIVE FL_SumShort(_, _)
FL_SumShort(ps, i) ==
    IF i < 1 THEN Zero ELSE RAdd(FL_SumShort(ps, i - 1), FL_SqErrShort(ps, i))

\* The mean squared error before the penalties.
FL_MseTerm(ps) ==
    IF ps.nt > ps.nd
    THEN RDiv(FL_SumLong(ps, ps.nd - 1), R(ps.nd))
    ELSE RDiv(FL_SumShort(ps, ps.nt - 1), R(ps.nt))

penalty_factor == R(10)

\* A penalty that is charged whether or not the bound is violated.
PenaltyBelowAlways(v, lo) == RMul(RSub(lo, v), penalty_factor)

\* if (v < lo) mse += (lo - v) * penalty_factor;
PenaltyBelow(v, lo) == IF RLt(v, lo) THEN RMul(RSub(lo, v), penalty_factor) ELSE Zero

\* if (v > hi) mse += (v - hi) * penalty_factor;
PenaltyAbove(v, hi) == IF RGt(v, hi) THEN RMul(RSub(v, hi), penalty_factor) ELSE Zero

\* The six penalties, on the values the struct holds after the floor.
FL_Penalty(ps) ==
    RAdd(Sum3(PenaltyBelow(ps.alpha_sp, ps.minalpha),
              PenaltyAbove(ps.alpha_sp, ps.maxalpha),
              PenaltyBelow(ps.theta_sp, ps.mintheta)),
         Sum3(PenaltyAbove(ps.theta_sp, ps.maxtheta),
              PenaltyBelow(ps.kappa_sp, ps.minkappa),
              PenaltyAbove(ps.kappa_sp, ps.maxkappa)))

\* The value returned, from the struct as the solve left it.
FL_Objective(ps) == RAdd(FL_MseTerm(ps), FL_Penalty(ps))

calc_mse_fit_layer(x, ps) == FL_Objective(FL_Solved(FL_Candidate(x, ps)))

(***************************************************************************)
(* The objective of 3layer, calc_mse_rti.  x is <<alpha, theta>> and ps    *)
(* the struct mse_rti_params; the call fills ps.p_theory.                  *)
(***************************************************************************)
\* The field at the start of pass kk of the 3layer solver's time loop.
RECURSIVE L3_Field(_, _)
L3_Field(f, kk) ==
    IF kk <= L3_nds(f) THEN f.s ELSE L3_Step(f, L3_Field(f, kk - 1), kk - 1)

\* The probe array the 3layer solver returns.
L3_Curve(f) ==
    [kk \in 0..(f.nt - 1) |->
        IF kk < L3_nds(f) THEN Zero ELSE L3_Field(f, kk)[f.iprobe][f.jprobe]]

\* erfc(spdist / (2 sqrt(dstar * tau))) as a function of the square q of
\* its argument.  erfc and sqrt are functions of the C library; the model
\* has the rational function 1/(1 + q) in their place, which like
\* erfc(sqrt(q)) falls from 1 at q = 0 towards 0 as q grows.
ErfcSqrt(q) == RDiv(One, RAdd(One, q))

\* The square of spdist / (2 sqrt(dstar * tau)).
rti_arg(ps, dstar, tau) == RDiv(SQR(ps.spdist), RMul(R(4), RMul(dstar, tau)))

\* samplitude / (4 PI alpha dstar spdist); ps.samplitude is the source
\* amplitude in units of 4 PI.
rti_ampl(ps, dstar) ==
    RDiv(ps.samplitude, RMul(RMul(ps.alpha, dstar), ps.spdist))

\* One point of rti_theory's curve.
rti_point(ps, dstar, tt) ==
    IF RLe(tt, ps.sdelay) THEN Zero
    ELSE IF RGt(tt, RAdd(ps.sdelay, ps.sduration))
         THEN RSub(RMul(rti_ampl(ps, dstar),
                        ErfcSqrt(rti_arg(ps, dstar, RSub(tt, ps.sdelay)))),
                   RMul(rti_ampl(ps, dstar),
                        ErfcSqrt(rti_arg(ps, dstar,
                                         RSub(tt, RAdd(ps.sdelay, ps.sduration))))))
         ELSE RMul(rti_ampl(ps, dstar),
                   ErfcSqrt(rti_arg(ps, dstar, RSub(tt, ps.sdelay))))

rti_theory(ps) ==
    [i \in 0..(ps.nt - 1) |-> rti_point(ps, RMul(ps.theta, ps.dfree), ps.t[i])]

\* The candidate copied into the struct, alpha and theta floored.
L3_Candidate(x, ps) == [ps EXCEPT !.alpha = FitFloor(x[1]), !.theta = FitFloor(x[2])]

\* The struct after rti_theory filled p_theory.
L3_Solved(ps) == [ps EXCEPT !.p_theory = rti_theory(ps)]

RECURSIVE L3_SumSq(_, _)
L3_SumSq(ps, i) ==
    IF i < 1 THEN Zero
    ELSE RAdd(L3_SumSq(ps, i - 1), SQR(RSub(ps.p_model[i], ps.p_theory[i])))

L3_Objective(ps) == RDiv(L3_SumSq(ps, ps.nt - 1), R(ps.nt))

calc_mse_rti(x, ps) == L3_Objective(L3_Solved(L3_Candidate(x, ps)))

(***************************************************************************)
(* The minimizer, gsl_multimin_fminimizer_nmsimplex of the GSL: the calls  *)
(* main makes (set, iterate, size, test_size) by the Nelder-Mead steps of  *)
(* that library.  A state st of the minimizer has the vertices x1[1..n+1], *)
(* their values y1, and evals, the candidates passed to the objective in   *)
(* the call under way.  pg is the program, ps the struct.                  *)
(***************************************************************************)
\* The status codes of the GSL that main tests or prints.
GSL_SUCCESS == 0

GSL_CONTINUE == -2

GSL_EFAILED == 5

\* Body(v), with v evaluated once.
Bind(v, Body(_)) == CHOOSE r \in {Body(w) : w \in {v}} : TRUE

\* The objective the program registers in fit_func.f.
Objective(pg, x, ps) ==
    IF pg = "fit-layer" THEN calc_mse_fit_layer(x, ps) ELSE calc_mse_rti(x, ps)

\* The struct after the objective was called with x.
Evaluated(pg, x, ps) ==
    IF pg = "fit-layer" THEN FL_Solved(FL_Candidate(x, ps))
    ELSE L3_Solved(L3_Candidate(x, ps))

\* Vertex i becomes x, whose value y the objective has just returned.
NM_Put(st, i, x, y) ==
    [st EXCEPT !.x1[i] = x, !.y1[i] = y, !.evals = Append(@, x)]

\* The objective was called with x and the vertices stay.
NM_Tried(st, x) == [st EXCEPT !.evals = Append(@, x)]

\* Indices <<lo, hi, s_hi>> of the lowest, highest and second highest
\* value, by the scan of nmsimplex_iterate.
RECURSIVE NM_Scan(_, _, _, _, _)
NM_Scan(y1, i, lo, hi, s_hi) ==
    IF i > Len(y1) THEN <<lo, hi, s_hi>>
    ELSE IF RLt(y1[i], y1[lo]) THEN NM_Scan(y1, i + 1, i, hi, s_hi)
    ELSE IF RGt(y1[i], y1[hi]) THEN NM_Scan(y1, i + 1, lo, i, hi)
    ELSE IF RGt(y1[i], y1[s_hi]) THEN NM_Scan(y1, i + 1, lo, hi, i)
    ELSE NM_Scan(y1, i + 1, lo, hi, s_hi)

RECURSIVE NM_SumOthers(_, _, _, _)
NM_SumOthers(x1, corner, j, i) ==
    IF i < 1 THEN Zero
    ELSE RAdd(NM_SumOthers(x1, corner, j, i - 1),
              IF i = corner THEN Zero ELSE x1[i][j])

\* Coordinate j of the mean of the vertices other than corner.
NM_mp(x1, corner, j) ==
    RDiv(NM_SumOthers(x1, corner, j, Len(x1)), R(Len(x1) - 1))

\* nmsimplex_move_corner: mp - coeff * (mp - x1[corner]).
NM_move_corner(coeff, x1, corner) ==
    [j \in 1..Len(x1[1]) |->
        RSub(NM_mp(x1, corner, j),
             RMul(coeff, RSub(NM_mp(x1, corner, j), x1[corner][j])))]

\* The midpoint of two vertices.
NM_Mid(x, y) == [j \in 1..Len(x) |-> RDiv(RAdd(x[j], y[j]), Two)]

\* nmsimplex_contract_by_best from vertex i on: every vertex but the best
\* moves half way to the best and is evaluated there.
RECURSIVE NM_contract_by_best(_, _, _, _, _)
NM_contract_by_best(pg, ps, st, best, i) ==
    IF i > Len(st.x1) THEN st
    ELSE IF i = best THEN NM_contract_by_best(pg, ps, st, best, i + 1)
    ELSE Bind(NM_Put(st, i, NM_Mid(st.x1[i], st.x1[best]),
                     Objective(pg, NM_Mid(st.x1[i], st.x1[best]), ps)),
              LAMBDA s2 : NM_contract_by_best(pg, ps, s2, best, i + 1))

\* The expansion xc2 was evaluated to val2 after the reflection xc, val.
NM_Expanded(st, cn, xc, val, xc2, val2) ==
    IF RLt(val2, st.y1[cn[1]])
    THEN NM_Put(NM_Tried(st, xc), cn[2], xc2, val2)
    ELSE NM_Tried(NM_Put(st, cn[2], xc, val), xc2)

\* The contraction xc2 was evaluated to val2; st has the reflection's
\* result already.
NM_Contracted(pg, ps, st, cn, xc2, val2) ==
    IF RLe(val2, st.y1[cn[2]])
    THEN NM_Put(st, cn[2], xc2, val2)
    ELSE NM_contract_by_best(pg, ps, NM_Tried(st, xc2), cn[1], 1)

\* One dimensional contraction of the highest vertex of st.
NM_Contract(pg, ps, st, cn) ==
    Bind(NM_move_corner(Q(1, 2), st.x1, cn[2]),
         LAMBDA xc2 :
            Bind(Objective(pg, xc2, ps),
                 LAMBDA val2 : NM_Contracted(pg, ps, st, cn, xc2, val2)))

\* The expansion of the highest vertex of st.
NM_Expand(pg, ps, st, cn, xc, val) ==
    Bind(NM_move_corner(R(-2), st.x1, cn[2]),
         LAMBDA xc2 :
            Bind(Objective(pg, xc2, ps),
                 LAMBDA val2 : NM_Expanded(st, cn, xc, val, xc2, val2)))

\* The reflection xc of the highest vertex was evaluated to val.
NM_Reflected(pg, ps, st, cn, xc, val) ==
    IF RLt(val, st.y1[cn[1]])
    THEN NM_Expand(pg, ps, st, cn, xc, val)
    ELSE IF RGt(val, st.y1[cn[3]])
         THEN IF RLe(val, st.y1[cn[2]])
              THEN NM_Contract(pg, ps, NM_Put(st, cn[2], xc, val), cn)
              ELSE NM_Contract(pg, ps, NM_Tried(st, xc), cn)
         ELSE NM_Put(st, cn[2], xc, val)

NM_Reflect(pg, ps, st, cn) ==
    Bind(NM_move_corner(R(-1), st.x1, cn[2]),
         LAMBDA xc :
            Bind(Objective(pg, xc, ps),
                 LAMBDA val : NM_Reflected(pg, ps, st, cn, xc, val)))

\* The vertices, values and evaluations of an nmsimplex_iterate that
\* returns GSL_SUCCESS.
NM_Stepped(pg, ps, st) ==
    Bind(NM_Scan(st.y1, 2, 1, 1, 1),
         LAMBDA cn : NM_Reflect(pg, ps, [st EXCEPT !.evals = <<>>], cn))

\* An nmsimplex_iterate whose function values are not finite: neither the
\* reflection nor the contraction is taken, the simplex is contracted to
\* the best vertex and the call returns GSL_EFAILED.
NM_Failed(pg, ps, st, cn) ==
    NM_contract_by_best(pg, ps,
        NM_Tried(NM_Tried([st EXCEPT !.evals = <<>>],
                          NM_move_corner(R(-1), st.x1, cn[2])),
                 NM_move_corner(Q(1, 2), st.x1, cn[2])),
        cn[1], 1)

\* gsl_vector_min_index: the first index of the least value.
min_index(y1) ==
    CHOOSE i \in 1..Len(y1) :
        /\ \A j \in 1..Len(y1) : RLe(y1[i], y1[j])
        /\ \A j \in 1..(i - 1) : RGt(y1[j], y1[i])

\* Coordinate j of the centre of the simplex.
NM_Centre(x1, j) == RDiv(NM_SumOthers(x1, 0, j, Len(x1)), R(Len(x1)))

RAbs(x) == IF RLt(x, Zero) THEN RNeg(x) ELSE x

\* The 1-norm and the maximum norm of vertex i minus the centre, up to
\* coordinate j.
RECURSIVE NM_Norm1(_, _, _)
NM_Norm1(x1, i, j) ==
    IF j < 1 THEN Zero
    ELSE RAdd(NM_Norm1(x1, i, j - 1), RAbs(RSub(x1[i][j], NM_Centre(x1, j))))

RECURSIVE NM_NormMax(_, _, _)
NM_NormMax(x1, i, j) ==
    IF j < 1 THEN Zero
    ELSE RMax(NM_NormMax(x1, i, j - 1), RAbs(RSub(x1[i][j], NM_Centre(x1, j))))

RECURSIVE NM_SumNorm1(_, _)
NM_SumNorm1(x1, i) ==
    IF i < 1 THEN Zero ELSE RAdd(NM_SumNorm1(x1, i - 1), NM_Norm1(x1, i, Len(x1[1])))

RECURSIVE NM_SumNormMax(_, _)
NM_SumNormMax(x1, i) ==
    IF i < 1 THEN Zero ELSE RAdd(NM_SumNormMax(x1, i - 1), NM_NormMax(x1, i, Len(x1[1])))

\* nmsimplex_size is the mean Euclidean distance of the vertices from the
\* centre.  The model holds a size as the pair of rational bounds that
\* enclose it: the mean maximum norm and the mean 1-norm.
nmsimplex_size(x1) ==
    [lo |-> RDiv(NM_SumNormMax(x1, Len(x1)), R(Len(x1))),
     hi |-> RDiv(NM_SumNorm1(x1, Len(x1)), R(Len(x1)))]

\* The initial simplex of nmsimplex_set: x and x + step[i] in coordinate i.
NM_Initial(x, step, i) ==
    [j \in 1..Len(x) |-> IF j = i - 1 THEN RAdd(x[j], step[j]) ELSE x[j]]

\* gsl_multimin_fminimizer_set
NM_set(pg, ps, x, step) ==
    [x1 |-> [i \in 1..(Len(x) + 1) |-> NM_Initial(x, step, i)],
     y1 |-> [i \in 1..(Len(x) + 1) |-> Objective(pg, NM_Initial(x, step, i), ps)],
     evals |-> [i \in 1..(Len(x) + 1) |-> NM_Initial(x, step, i)],
     x |-> x,
     size |-> nmsimplex_size([i \in 1..(Len(x) + 1) |-> NM_Initial(x, step, i)])]

\* The end of an nmsimplex_iterate that succeeds: x, fval and size are
\* those of the lowest vertex of the new simplex.
NM_Returned(s2) ==
    [x1 |-> s2.x1, y1 |-> s2.y1, evals |-> s2.evals,
     x |-> s2.x1[min_index(s2.y1)], fval |-> s2.y1[min_index(s2.y1)],
     size |-> nmsimplex_size(s2.x1)]

\* gsl_multimin_fminimizer_iterate returning GSL_SUCCESS
NM_iterate(pg, ps, st) == Bind(NM_Stepped(pg, ps, st), LAMBDA s2 : NM_Returned(s2))

\* gsl_multimin_test_size: the statuses it can return for a size within
\* the bounds sz.
test_size(sz, tol) ==
    (IF RLt(sz.lo, tol) THEN {GSL_SUCCESS} ELSE {})
        \cup (IF RGe(sz.hi, tol) THEN {GSL_CONTINUE} ELSE {})

(***************************************************************************)
(* Specification SpecObj: calls of calc_mse_fit_layer on one struct, as    *)
(* the minimizer makes them, each with a candidate of its own.             *)
(***************************************************************************)
MaxNd == 3

\* The bounds main starts with, and bounds set with --minalpha, --mintheta.
DefaultBounds ==
    [minalpha |-> Q(1, 1000), maxalpha |-> Q(1, 4), mintheta |-> Q(1, 1000),
     maxtheta |-> Q(3, 4), minkappa |-> Zero, maxkappa |-> Q(1, 10)]

UserBounds ==
    [minalpha |-> Q(1, 8), maxalpha |-> Q(1, 4), mintheta |-> Q(1, 2),
     maxtheta |-> Q(3, 4), minkappa |-> Zero, maxkappa |-> Q(1, 10)]

\* Candidates: one inside every bound, and two beyond each bound.
Candidates ==
    { <<Q(1, 8), Q(1, 2), Zero>>,
      <<R(-1), Q(1, 2), Zero>>, <<Zero, Q(1, 2), Zero>>,
      <<Q(1, 2), Q(1, 2), Zero>>, <<One, Q(1, 2), Zero>>,
      <<Q(1, 8), Q(1, 4), Zero>>, <<Q(1, 8), Q(1, 8), Zero>>,
      <<Q(1, 8), One, Zero>>, <<Q(1, 8), Two, Zero>>,
      <<Q(1, 8), Q(1, 2), Q(-1, 4)>>, <<Q(1, 8), Q(1, 2), Q(-1, 2)>>,
      <<Q(1, 8), Q(1, 2), Q(1, 4)>>, <<Q(1, 8), Q(1, 2), Q(1, 2)>> }

\* The source is in row 2 and the probe in row 3, both inside SP.
ObjGeometry == [nz |-> 6, nr |-> 2, iz1 |-> 0, iz2 |-> 4]

ObjMedium == [l |-> Uniform, dr |-> One, dt |-> One]

\* The runs: layer model or not, kappa global or not, the source timing,
\* the bounds, and the slope of the data curve.
ObjWorlds ==
    { [nolayer |-> FALSE, global |-> FALSE, tm |-> [nds |-> 0, ns |-> 1],
       b |-> DefaultBounds, slope |-> Zero],
      [nolayer |-> FALSE, global |-> TRUE, tm |-> [nds |-> 1, ns |-> 2],
       b |-> UserBounds, slope |-> Q(1, 2)],
      [nolayer |-> TRUE, global |-> FALSE, tm |-> [nds |-> 0, ns |-> 1],
       b |-> UserBounds, slope |-> Q(1, 2)],
      [nolayer |-> FALSE, global |-> FALSE, tm |-> [nds |-> 1, ns |-> 2],
       b |-> DefaultBounds, slope |-> Q(1, 2)] }

\* p_data[i] = slope * i
DataCurve(nd, slope) == [i \in 0..(nd - 1) |-> RMul(slope, R(i))]

ObjArgs(tm, nt, nolayer) ==
    [SolverArgs(ObjGeometry, ObjMedium, {<<2, 1>>}, tm, nt, nolayer, 0)
        EXCEPT !.iprobe = 3]

\* The struct as main fills it before the fit.
ParamStruct(f, nd, p_data, b, global) ==
    [nt |-> f.nt, nd |-> nd, nz |-> f.nz, nr |-> f.nr,
     iprobe |-> f.iprobe, jprobe |-> f.jprobe, iz1 |-> f.iz1, iz2 |-> f.iz2,
     nolayer |-> f.nolayer, opt_global_kappa |-> global,
     dt |-> f.dt, dr |-> f.dr, sd |-> f.sd, st |-> f.st,
     alpha_so |-> f.alpha_so, theta_so |-> f.theta_so, kappa_so |-> f.kappa_so,
     alpha_sp |-> f.alpha_sp, theta_sp |-> f.theta_sp, kappa_sp |-> f.kappa_sp,
     alpha_sr |-> f.alpha_sr, theta_sr |-> f.theta_sr, kappa_sr |-> f.kappa_sr,
     minalpha |-> b.minalpha, maxalpha |-> b.maxalpha,
     mintheta |-> b.mintheta, maxtheta |-> b.maxtheta,
     minkappa |-> b.minkappa, maxkappa |-> b.maxkappa,
     dfree |-> f.dfree, t |-> f.t, s |-> f.s, invr |-> f.invr,
     p |-> [kk \in 0..(f.nt - 1) |-> Zero], p_data |-> p_data]

ObjInit ==
    /\ \E nt \in 1..MaxNt, nd \in 1..MaxNd, w \in ObjWorlds :
          param_struct =
              ParamStruct(ObjArgs(w.tm, nt, w.nolayer), nd, DataCurve(nd, w.slope),
                          w.b, w.global)
    /\ pending \in Candidates \X Candidates
    /\ calls = <<>>
    /\ SolverIdle
    /\ ConvIdle
    /\ MainIdle
    /\ BlocksIdle

\* A call that returns: the struct holds the candidate and its curve.
ObjCall ==
    /\ pending # <<>>
    /\ ~FL_Fatal(FL_Candidate(Head(pending), param_struct))
    /\ param_struct' = FL_Solved(FL_Candidate(Head(pending), param_struct))
    /\ calls' = Append(calls, [x |-> Head(pending),
                               mse |-> FL_MseTerm(param_struct'),
                               value |-> FL_Objective(param_struct')])
    /\ pending' = Tail(pending)
    /\ UNCHANGED notObj

\* A call whose solve ends the program with an error message.
ObjCallFatal ==
    /\ pending # <<>>
    /\ FL_Fatal(FL_Candidate(Head(pending), param_struct))
    /\ param_struct' = FL_Candidate(Head(pending), param_struct)
    /\ pending' = <<>>
    /\ UNCHANGED calls
    /\ UNCHANGED notObj

ObjNext == ObjCall \/ ObjCallFatal

SpecObj == ObjInit /\ [][ObjNext]_vars

(***************************************************************************)
(* Properties of the objective (specification SpecObj).                    *)
(***************************************************************************)
\* The penalty part of a returned value.
PenaltyOf(r) == RSub(r.value, r.mse)

LowerBound(ps, n) ==
    IF n = 1 THEN ps.minalpha ELSE IF n = 2 THEN ps.mintheta ELSE ps.minkappa

UpperBound(ps, n) ==
    IF n = 1 THEN ps.maxalpha ELSE IF n = 2 THEN ps.maxtheta ELSE ps.maxkappa

DifferOnlyIn(x, y, n) == \A m \in 1..3 : m # n => x[m] = y[m]

\* Call ra is charged more than call rb.
ChargedMore(ra, rb) ==
    /\ RGt(PenaltyOf(ra), PenaltyOf(rb))
    /\ ra.mse = rb.mse => RGt(ra.value, rb.value)

\* Both candidates are beyond the same bound of parameter n, x further.
FurtherBelow(x, y, n) == RLt(x[n], y[n]) /\ RLt(y[n], LowerBound(param_struct, n))

FurtherAbove(x, y, n) == RGt(x[n], y[n]) /\ RGt(y[n], UpperBound(param_struct, n))

\* C5: of two candidates that violate the same bound of one parameter and
\* are equal in the other two parameters, the one further outside the
\* bound gets the strictly larger penalty, and the strictly larger
\* objective value when the mean squared errors are equal.
C5_PenaltyMonotone ==
    \A a, b \in 1..Len(calls), n \in 1..3 :
        /\ DifferOnlyIn(calls[a].x, calls[b].x, n)
        /\ FurtherBelow(calls[a].x, calls[b].x, n) \/ FurtherAbove(calls[a].x, calls[b].x, n)
        => ChargedMore(calls[a], calls[b])

\* Two candidates below minalpha, one further below than the other, have
\* been evaluated and were charged the same.
C5_Witness ==
    /\ Len(calls) = 2
    /\ DifferOnlyIn(calls[1].x, calls[2].x, 1)
    /\ FurtherBelow(calls[1].x, calls[2].x, 1)
    /\ calls[1].value = calls[2].value

\* C6: every value calc_mse_fit_layer returns is non-negative.
C6_NonNegative == \A i \in 1..Len(calls) : RGe(calls[i].value, Zero)

\* A call has returned a positive error plus a positive penalty for a
\* model curve longer than the data, and one for a model curve not longer.
C6_Witness ==
    /\ Len(calls) = 2
    /\ RGt(calls[2].mse, Zero)
    /\ RGt(PenaltyOf(calls[2]), Zero)
    /\ param_struct.nt > param_struct.nd
    /\ param_struct.nd > 1

(***************************************************************************)
(* main of 3layer and of fit-layer, from the layer parameters to the exit. *)
(* o is the record opt of the run's options and inputs, g the record grid. *)
(***************************************************************************)
EXIT_SUCCESS == 0

EXIT_FAILURE == 1

\* if (nolayer) the SO and SP parameters are set to the SR values.
NoLayerAlias(o) ==
    IF o.nolayer
    THEN [o EXCEPT !.alpha_so = o.alpha_sr, !.alpha_sp = o.alpha_sr,
                   !.theta_so = o.theta_sr, !.theta_sp = o.theta_sr,
                   !.kappa_so = o.kappa_sr, !.kappa_sp = o.kappa_sr]
    ELSE o

\* if (opt_global_kappa) kappa_sr = kappa_so = kappa_sp.
GlobalKappa(o) ==
    IF o.opt_global_kappa
    THEN [o EXCEPT !.kappa_sr = o.kappa_sp, !.kappa_so = o.kappa_sp]
    ELSE o

\* The layer parameters main goes on with.
MainLayers(o) == GlobalKappa(NoLayerAlias(o))

\* dr = rmax / nr; dz = zmax / nz; if they differ, dr = dz.  (The inputs
\* of the model differ by nothing or by far more than the 1e-15 tested.)
main_dr(o) ==
    IF RDiv(o.rmax, R(o.nr)) # RDiv(o.zmax, R(o.nz))
    THEN RDiv(o.zmax, R(o.nz))
    ELSE RDiv(o.rmax, R(o.nr))

\* dstar_max = MAX(MAX(dstar_so, dstar_sp), dstar_sr)
dstar_max(l, dfree) ==
    RMax(RMax(RMul(l.theta_so, dfree), RMul(l.theta_sp, dfree)),
         RMul(l.theta_sr, dfree))

\* The time step before nt_scale: from nt, or from the von Neumann bound.
main_dt(o) ==
    IF o.specified_nt
    THEN RDiv(o.tmax, R(o.nt))
    ELSE RDiv(RMul(Q(9, 10), SQR(main_dr(o))),
              RMul(R(6), dstar_max(MainLayers(o), o.dfree)))

\* dt /= nt_scale
scaled_dt(o) ==
    IF o.specified_nt_scale THEN RDiv(main_dt(o), o.nt_scale) ELSE main_dt(o)

\* tmax, st and sd as multiples of dt.
MainGrid(o, dt) ==
    [dr |-> main_dr(o), dt |-> dt,
     nt |-> LRound(RDiv(o.tmax, dt)), tmax |-> RMul(dt, R(LRound(RDiv(o.tmax, dt)))),
     ns |-> LRound(RDiv(o.st, dt)), st |-> RMul(dt, R(LRound(RDiv(o.st, dt)))),
     nds |-> LRound(RDiv(o.sd, dt)), sd |-> RMul(dt, R(LRound(RDiv(o.sd, dt))))]

\* The fatal checks between the layer geometry and the source amplitude.
ThinLayer(o) == (o.iz2 - o.iz1) < 2 /\ ~o.nolayer

BadScale(o) == o.specified_nt_scale /\ RLe(o.nt_scale, Zero)

BadTimes(g) ==
    \/ RGe(g.sd, g.tmax)
    \/ RGe(g.st, g.tmax)
    \/ RGe(RAdd(g.sd, g.st), g.tmax)

\* The arguments of the forward solver as main passes them.
MainArgs(o, g) ==
    [nt |-> g.nt, nz |-> o.nz, nr |-> o.nr, iprobe |-> o.iprobe, jprobe |-> o.jprobe,
     iz1 |-> o.iz1, iz2 |-> o.iz2, nolayer |-> o.nolayer,
     dt |-> g.dt, dr |-> g.dr, sd |-> g.sd, st |-> g.st,
     alpha_so |-> MainLayers(o).alpha_so, theta_so |-> MainLayers(o).theta_so,
     kappa_so |-> MainLayers(o).kappa_so,
     alpha_sp |-> MainLayers(o).alpha_sp, theta_sp |-> MainLayers(o).theta_sp,
     kappa_sp |-> MainLayers(o).kappa_sp,
     alpha_sr |-> MainLayers(o).alpha_sr, theta_sr |-> MainLayers(o).theta_sr,
     kappa_sr |-> MainLayers(o).kappa_sr,
     dfree |-> o.dfree, t |-> TimeArray(g.nt, g.dt),
     s |-> SourceField(o, o.cells), invr |-> InvR(o.nr, g.dr),
     image_spacing |-> R(-1)]

\* The struct mse_rti_params as 3layer's main fills it; p is the curve of
\* the forward solve.
MseRtiParams(o, g, pp) ==
    [nt |-> g.nt, spdist |-> o.spdist, samplitude |-> o.samplitude,
     sdelay |-> g.sd, sduration |-> g.st, kappa |-> Zero, dfree |-> o.dfree,
     alpha |-> R(-1), theta |-> R(-1),
     t |-> TimeArray(g.nt, g.dt), p_model |-> pp,
     p_theory |-> [kk \in 0..(g.nt - 1) |-> Zero]]

\* What a forward solve with arguments f is run with.
SolveOf(f) ==
    [dt |-> f.dt, dr |-> f.dr, dfree |-> f.dfree, nolayer |-> f.nolayer,
     theta_so |-> f.theta_so, theta_sp |-> f.theta_sp, theta_sr |-> f.theta_sr]

\* The forward solves of the objective calls with the candidates evals.
FitSolves(pg, ps, evals) ==
    IF pg = "fit-layer"
    THEN {SolveOf(FL_Candidate(evals[i], ps)) : i \in 1..Len(evals)}
    ELSE {}

\* The start of the simplex and its steps.
MainSimplex(o) ==
    IF o.program = "fit-layer"
    THEN <<MainLayers(o).alpha_sp, MainLayers(o).theta_sp, MainLayers(o).kappa_sp>>
    ELSE <<o.alpha_start, o.theta_start>>

\* The curve the objective left in the struct.
CurveBuffer(pg, ps) == IF pg = "fit-layer" THEN ps.p ELSE ps.p_theory

\* fit_iter < itermax: fit_iter is a size_t, so the int itermax is
\* converted to size_t, and a negative itermax is a number beyond every
\* count of iterations.
LessUnsigned(n, itermax) == IF itermax < 0 THEN TRUE ELSE n < itermax

\* while (fit_status == GSL_CONTINUE && fit_iter < itermax)
LoopAgain(status, n, itermax) == status = GSL_CONTINUE /\ LessUnsigned(n, itermax)

\* A warning for the iteration cap alone.
WarnedAtCap(status) == status = GSL_CONTINUE

\* if (fit_status != GSL_SUCCESS) the warning is printed.
Warned(status) == status # GSL_SUCCESS

\* The messages after the loop.
LoopMessages(status) ==
    IF Warned(status) THEN {"Warning: failed to converge"} ELSE {}

(***************************************************************************)
(* Specification SpecFit: a run of either program from the layer           *)
(* parameters on.  The environment decides whether an iteration of the     *)
(* minimizer fails and whether the output file opens.                      *)
(***************************************************************************)
MaxIter == 3

\* A run of the model: source in row 2, probe in row 3, dr = dz = 2, and
\* a time step of 1 under the von Neumann bound (theta_sr = 3/5 is the
\* largest theta).
BaseRun ==
    [program |-> "fit-layer", itermax |-> 1, fit_tol |-> Q(1, 10000),
     nolayer |-> FALSE, opt_global_kappa |-> FALSE,
     nz |-> 6, nr |-> 2, zmax |-> R(12), rmax |-> R(4),
     iz1 |-> 0, iz2 |-> 4, iprobe |-> 3, jprobe |-> 1, cells |-> {<<2, 1>>},
     alpha_sr |-> Q(1, 2), theta_sr |-> Q(3, 5), kappa_sr |-> Zero,
     alpha_sp |-> Q(1, 2), theta_sp |-> Q(1, 2), kappa_sp |-> Zero,
     alpha_so |-> Q(1, 2), theta_so |-> Q(1, 2), kappa_so |-> Zero,
     dfree |-> One, tmax |-> R(2), sd |-> Zero, st |-> One,
     specified_nt |-> FALSE, nt |-> 0,
     specified_nt_scale |-> FALSE, nt_scale |-> One,
     bounds |-> DefaultBounds, steps |-> <<Q(1, 8), Q(1, 4), Q(1, 8)>>,
     nd |-> 2, p_data |-> DataCurve(2, Q(1, 2)),
     alpha_start |-> Q(1, 4), theta_start |-> Q(1, 2),
     spdist |-> Two, samplitude |-> One]

FitRuns ==
    { BaseRun,
      [BaseRun EXCEPT !.tmax = R(3)],
      [BaseRun EXCEPT !.specified_nt_scale = TRUE, !.nt_scale = Q(1, 2), !.tmax = R(4),
                      !.st = Two],
      [BaseRun EXCEPT !.specified_nt_scale = TRUE, !.nt_scale = Two, !.tmax = One,
                      !.st = Q(1, 2)],
      [BaseRun EXCEPT !.specified_nt = TRUE, !.nt = 2],
      [BaseRun EXCEPT !.specified_nt_scale = TRUE, !.nt_scale = Zero],
      [BaseRun EXCEPT !.specified_nt_scale = TRUE, !.nt_scale = R(-1)],
      [BaseRun EXCEPT !.sd = Two],
      [BaseRun EXCEPT !.iz1 = 3, !.iprobe = 4],
      [BaseRun EXCEPT !.nolayer = TRUE],
      [BaseRun EXCEPT !.opt_global_kappa = TRUE, !.bounds = UserBounds] }

\* Runs with a single data point: nt > nd = 1, the sum of squares of the
\* objective has no term and the objective is the sum of the penalties.
LongRuns ==
    { [BaseRun EXCEPT !.nd = 1, !.p_data = DataCurve(1, Q(1, 2))],
      [BaseRun EXCEPT !.nd = 1, !.p_data = DataCurve(1, Q(1, 2)), !.nolayer = TRUE],
      [BaseRun EXCEPT !.nd = 1, !.p_data = DataCurve(1, Q(1, 2)),
                      !.opt_global_kappa = TRUE, !.bounds = UserBounds] }

\* fit-layer's runs of LongRuns take every itermax from -1 to MaxIter.  The
\* runs of FitRuns, whose squared error is of degree four in the candidate,
\* and the runs of 3layer, whose objective is a quotient, take itermax 0 or
\* 1 and iterate once, so that the rationals stay within TLC's integers.
FitInit ==
    /\ \E r \in FitRuns \cup LongRuns, pg \in Programs, im \in (-1)..MaxIter,
          tol \in {Q(1, 10000), Q(1, 8)} :
          /\ pg = "3layer" => ~r.opt_global_kappa
          /\ (r \in FitRuns \/ pg = "3layer") => im \in 0..1
          /\ opt = [r EXCEPT !.program = pg, !.itermax = im, !.fit_tol = tol]
    /\ mpc = "setup"
    /\ grid = <<>>
    /\ param_struct = <<>>
    /\ fit_state = <<>>
    /\ fit_iter = 0
    /\ fit_status = -1
    /\ fit_size = [lo |-> R(-1), hi |-> R(-1)]
    /\ alpha_fit = R(-1)
    /\ theta_fit = R(-1)
    /\ kappa_fit = R(-1)
    /\ mse = R(-1)
    /\ messages = {}
    /\ outfile = <<>>
    /\ exit_status = -1
    /\ solves = {}
    /\ pending = <<>>
    /\ calls = <<>>
    /\ SolverIdle
    /\ ConvIdle
    /\ BlocksIdle

\* The layer check, the time step, nt_scale, the rounding of the times and
\* their checks.  error() prints its message and exits with failure.
MainSetup ==
    /\ mpc = "setup"
    /\ IF ThinLayer(opt) \/ BadScale(opt)
       THEN /\ messages' = {"error"}
            /\ exit_status' = EXIT_FAILURE
            /\ mpc' = "exit"
            /\ UNCHANGED grid
       ELSE /\ grid' = MainGrid(opt, scaled_dt(opt))
            /\ IF BadTimes(grid')
               THEN /\ messages' = {"error"}
                    /\ exit_status' = EXIT_FAILURE
                    /\ mpc' = "exit"
               ELSE /\ mpc' = IF opt.program = "3layer" THEN "solve" ELSE "fill"
                    /\ UNCHANGED <<messages, exit_status>>
    /\ UNCHANGED <<opt, param_struct, fit_state, fit_iter, fit_status, fit_size,
                   alpha_fit, theta_fit, kappa_fit, mse, outfile, solves>>
    /\ UNCHANGED notMain

\* 3layer: the forward solve, and its curve copied into mse_rti_params.
L3_MainSolve ==
    /\ mpc = "solve"
    /\ param_struct' = MseRtiParams(opt, grid, L3_Curve(MainArgs(opt, grid)))
    /\ solves' = {SolveOf(MainArgs(opt, grid))}
    /\ mpc' = "set"
    /\ UNCHANGED <<opt, grid, fit_state, fit_iter, fit_status, fit_size, alpha_fit,
                   theta_fit, kappa_fit, mse, messages, outfile, exit_status>>
    /\ UNCHANGED notMain

\* fit-layer: param_struct is filled for the objective.
FL_MainFill ==
    /\ mpc = "fill"
    /\ param_struct' = ParamStruct(MainArgs(opt, grid), opt.nd, opt.p_data,
                                   opt.bounds, opt.opt_global_kappa)
    /\ mpc' = "set"
    /\ UNCHANGED <<opt, grid, fit_state, fit_iter, fit_status, fit_size, alpha_fit,
                   theta_fit, kappa_fit, mse, messages, outfile, exit_status, solves>>
    /\ UNCHANGED notMain

\* gsl_multimin_fminimizer_set evaluates the vertices of the first simplex.
MainSet ==
    /\ mpc = "set"
    /\ fit_state' = NM_set(opt.program, param_struct, MainSimplex(opt),
                           SubSeq(opt.steps, 1, Len(MainSimplex(opt))))
    /\ param_struct' = Evaluated(opt.program, fit_state'.evals[Len(fit_state'.evals)],
                                 param_struct)
    /\ solves' = solves \cup FitSolves(opt.program, param_struct, fit_state'.evals)
    /\ mpc' = "loop"
    /\ UNCHANGED <<opt, grid, fit_iter, fit_status, fit_size, alpha_fit,
                   theta_fit, kappa_fit, mse, messages, outfile, exit_status>>
    /\ UNCHANGED notMain

\* A pass of the do-while loop whose iterate call succeeds.
MainIterate ==
    /\ mpc = "loop"
    /\ fit_iter < MaxIter
    /\ fit_iter' = fit_iter + 1
    /\ fit_state' = NM_iterate(opt.program, param_struct, fit_state)
    /\ param_struct' = Evaluated(opt.program, fit_state'.evals[Len(fit_state'.evals)],
                                 param_struct)
    /\ solves' = solves \cup FitSolves(opt.program, param_struct, fit_state'.evals)
    /\ fit_size' = fit_state'.size
    /\ fit_status' \in test_size(fit_size', opt.fit_tol)
    /\ alpha_fit' = fit_state'.x[1]
    /\ theta_fit' = fit_state'.x[2]
    /\ kappa_fit' = IF opt.program = "fit-layer" THEN fit_state'.x[3] ELSE kappa_fit
    /\ mse' = fit_state'.fval
    /\ mpc' = IF LoopAgain(fit_status', fit_iter', opt.itermax) THEN "loop" ELSE "report"
    /\ UNCHANGED <<opt, grid, messages, outfile, exit_status>>
    /\ UNCHANGED notMain

\* A pass whose iterate call returns an error status: break.
MainIterateFails ==
    /\ mpc = "loop"
    /\ fit_iter < MaxIter
    /\ fit_iter' = fit_iter + 1
    /\ fit_state' = NM_Failed(opt.program, param_struct, fit_state,
                              NM_Scan(fit_state.y1, 2, 1, 1, 1))
    /\ param_struct' = Evaluated(opt.program, fit_state'.evals[Len(fit_state'.evals)],
                                 param_struct)
    /\ solves' = solves \cup FitSolves(opt.program, param_struct, fit_state'.evals)
    /\ fit_status' = GSL_EFAILED
    /\ mpc' = "report"
    /\ UNCHANGED <<opt, grid, fit_size, alpha_fit, theta_fit, kappa_fit, mse,
                   messages, outfile, exit_status>>
    /\ UNCHANGED notMain

\* After the loop, the output file opens: the warning, the results, the
\* curves, return(EXIT_SUCCESS).
MainReport ==
    /\ mpc = "report"
    /\ messages' = messages \cup LoopMessages(fit_status)
    /\ outfile' = [results |-> [fit_iter |-> fit_iter, alpha_fit |-> alpha_fit,
                                theta_fit |-> theta_fit, kappa_fit |-> kappa_fit,
                                mse |-> mse, fit_size |-> fit_size],
                   curves |-> CurveBuffer(opt.program, param_struct)]
    /\ exit_status' = EXIT_SUCCESS
    /\ mpc' = "exit"
    /\ UNCHANGED <<opt, grid, param_struct, fit_state, fit_iter, fit_status, fit_size,
                   alpha_fit, theta_fit, kappa_fit, mse, solves>>
    /\ UNCHANGED notMain

\* After the loop, fopen of the output file returns NULL.
MainReportFails ==
    /\ mpc = "report"
    /\ messages' = messages \cup LoopMessages(fit_status)
                       \cup {"Error opening output file"}
    /\ exit_status' = EXIT_FAILURE
    /\ mpc' = "exit"
    /\ UNCHANGED <<opt, grid, param_struct, fit_state, fit_iter, fit_status, fit_size,
                   alpha_fit, theta_fit, kappa_fit, mse, outfile, solves>>
    /\ UNCHANGED notMain

FitNext ==
    \/ MainSetup
    \/ L3_MainSolve
    \/ FL_MainFill
    \/ MainSet
    \/ MainIterate
    \/ MainIterateFails
    \/ MainReport
    \/ MainReportFails

SpecFit == FitInit /\ [][FitNext]_vars

(***************************************************************************)
(* Properties of SpecFit.                                                  *)
(***************************************************************************)
\* The diffusion coefficient the stability bound of a solve is taken from:
\* the solver reads theta_sr alone in a homogeneous environment.
DstarInForce(s) ==
    IF s.nolayer THEN RMul(s.theta_sr, s.dfree) ELSE dstar_max(s, s.dfree)

\* 0.9 dr^2 / (6 D*max) for the solve s.
StabilityBound(s) ==
    RDiv(RMul(Q(9, 10), SQR(s.dr)), RMul(R(6), DstarInForce(s)))

\* The loop has ended.
LoopEnded == mpc \in {"report", "exit"} /\ fit_iter >= 1

\* The results and the curves were written.
Reported == outfile # <<>>

(* C4: when the user gives no nt, every forward solve of a run (3layer's    *)
(* single solve, each solve of fit-layer's objective with its candidate)   *)
(* has dt <= 0.9 dr^2 / (6 D*max), D*max being the largest theta * dfree   *)
(* in force in that solve, with or without nt_scale.                       *)
C4_StableTimeStep ==
    ~opt.specified_nt => \A s \in solves : RLe(s.dt, StabilityBound(s))

\* A fit without nt whose objective has solved for candidates.
C4_Witness ==
    /\ ~opt.specified_nt
    /\ opt.program = "fit-layer"
    /\ Cardinality(solves) > 1
    /\ \E s \in solves : RLe(s.dt, StabilityBound(s))

(* C7: the loop performs at most itermax iterations, for every integer     *)
(* itermax (none for an itermax that is not positive).                     *)
C7_AtMostItermax ==
    fit_iter <= (IF opt.itermax < 0 THEN 0 ELSE opt.itermax)

\* The loop stopped at the cap after more than one iteration.
C7_Witness ==
    /\ LoopEnded
    /\ fit_status = GSL_CONTINUE
    /\ opt.itermax >= 2
    /\ fit_iter = opt.itermax

C9_ReportedBest ==
    (Reported /\ fit_status # GSL_SUCCESS) =>
        /\ outfile.results.alpha_fit = fit_state.x[1]
        /\ outfile.results.theta_fit = fit_state.x[2]
        /\ opt.program = "fit-layer" => outfile.results.kappa_fit = fit_state.x[3]
        /\ outfile.results.alpha_fit # R(-1)
        /\ outfile.results.theta_fit # R(-1)
        /\ outfile.results.mse # R(-1)
        /\ outfile.results.fit_size.hi # R(-1)

\* A run that stopped at the cap and reported the best point.
C9_Witness ==
    /\ Reported
    /\ fit_status = GSL_CONTINUE
    /\ outfile.results.alpha_fit = fit_state.x[1]
    /\ outfile.results.theta_fit = fit_state.x[2]
    /\ outfile.results.mse = fit_state.fval

\* The candidate the results report.
ReportedCandidate ==
    IF opt.program = "fit-layer"
    THEN <<outfile.results.alpha_fit, outfile.results.theta_fit,
           outfile.results.kappa_fit>>
    ELSE <<outfile.results.alpha_fit, outfile.results.theta_fit>>

\* The curve of the reported candidate.
ReportedCurve ==
    CurveBuffer(opt.program, Evaluated(opt.program, ReportedCandidate, param_struct))

(* C10: after a loop whose last iteration succeeded, the curve written to  *)
(* the output file is the curve of the reported alpha_fit, theta_fit (and  *)
(* kappa_fit).                                                             *)
C10_CurveOfReported ==
    (Reported /\ fit_status \in {GSL_SUCCESS, GSL_CONTINUE}) =>
        outfile.curves = ReportedCurve

\* A run whose last evaluation was the reported point.
C10_Witness ==
    /\ Reported
    /\ fit_status \in {GSL_SUCCESS, GSL_CONTINUE}
    /\ fit_state.evals[Len(fit_state.evals)] = ReportedCandidate
    /\ outfile.curves = ReportedCurve

(***************************************************************************)
(* Properties of Spec that compare the two solvers and follow the source   *)
(* and the probe samples through the loop.                                 *)
(***************************************************************************)
\* The loop of the solver has started.
InLoop == pc \in {"loop", "done"}

\* What fit-layer's solver does to the field, the step counter and the
\* probe samples in a step of the run.
FL_SolverStep ==
    /\ pc = "start" =>
          /\ c' = args.s
          /\ IF FL_nds(args) >= args.nt
             THEN pc' = "error" /\ UNCHANGED <<k, p>>
             ELSE /\ pc' = "loop"
                  /\ k' = FL_nds(args)
                  /\ \A kk \in 0..(k' - 1) : p'[kk] = Zero
    /\ (pc = "loop" /\ k < args.nt) =>
          /\ p' = [p EXCEPT ![k] = c[args.iprobe][args.jprobe]]
          /\ c' = FL_Step(args, c, k)
          /\ k' = k + 1
    /\ (pc = "loop" /\ k >= args.nt) => (pc' = "done" /\ UNCHANGED <<c, k, p>>)

\* The same of 3layer's solver.
L3_SolverStep ==
    /\ pc = "start" =>
          /\ c' = args.s
          /\ IF L3_nds(args) >= args.nt
             THEN pc' = "error" /\ UNCHANGED <<k, p>>
             ELSE /\ pc' = "loop"
                  /\ k' = L3_nds(args)
                  /\ \A kk \in 0..(k' - 1) : p'[kk] = Zero
    /\ (pc = "loop" /\ k < args.nt) =>
          /\ p' = [p EXCEPT ![k] = c[args.iprobe][args.jprobe]]
          /\ c' = L3_Step(args, c, k)
          /\ k' = k + 1
    /\ (pc = "loop" /\ k >= args.nt) => (pc' = "done" /\ UNCHANGED <<c, k, p>>)

\* A step of either program is a step of the other program's solver.
SameSolverStep ==
    /\ prog = "3layer" => FL_SolverStep
    /\ prog = "fit-layer" => L3_SolverStep

LayerValues ==
    { [alpha |-> Q(1, 2), theta |-> Q(1, 2), kappa |-> Zero],
      [alpha |-> One, theta |-> One, kappa |-> One] }

\* The arguments f with other parameters for the SP and the SO layer.
WithLayers(f, sp, so) ==
    [f EXCEPT !.alpha_sp = sp.alpha, !.theta_sp = sp.theta, !.kappa_sp = sp.kappa,
              !.alpha_so = so.alpha, !.theta_so = so.theta, !.kappa_so = so.kappa]

\* The parameters of SR.
LayerSR(f) == [alpha |-> f.alpha_sr, theta |-> f.theta_sr, kappa |-> f.kappa_sr]

\* A step of a homogeneous run is the step of the run with any other
\* parameters in SP and SO, from the same field.
NoLayerStep ==
    (args.nolayer /\ pc = "loop" /\ k < args.nt) =>
        \A sp \in LayerValues \cup {LayerSR(args)}, so \in LayerValues \cup {LayerSR(args)} :
            /\ prog = "fit-layer" => c' = FL_Step(WithLayers(args, sp, so), c, k)
            /\ prog = "3layer" => c' = L3_Step(WithLayers(args, sp, so), c, k)
            /\ p'[k] = c[args.iprobe][args.jprobe]

(* C12: in a homogeneous (nolayer) run the field after every step and the  *)
(* probe samples do not depend on the alpha, theta and kappa given for the *)
(* SP and SO layers: two runs that differ only in them take the same steps. *)
C12_NoLayerIgnoresLayers == [][NoLayerStep]_vars

\* The first step of a homogeneous run of fit-layer has left a field that
\* is not the field it leaves with SR's parameters in SP and SO.
C12_Witness ==
    /\ prog = "fit-layer"
    /\ args.nolayer
    /\ pc = "loop"
    /\ k = FL_nds(args) + 1
    /\ c = FL_Step(args, args.s, k - 1)
    /\ c # FL_Step(WithLayers(args, LayerSR(args), LayerSR(args)), args.s, k - 1)


(***************************************************************************)
(* Specification SpecImage: the block of 3layer's solver that copies the   *)
(* field to the image array and finds its extreme values, one action per   *)
(* pass of the inner loop.  conc_out has nz*(2*nr-1) elements; main takes  *)
(* nr from the input with atoi and does not check it.                      *)
(***************************************************************************)
ImageMaxNz == 3

ImageMaxNr == 3

\* Fields to copy: all values different with the least at c[0]; the least
\* in the last row of column 0 and the greatest in the last column.
ImageFields(nz, nr) ==
    { [i \in 0..(nz - 1) |-> [j \in 0..nr |-> R(i * (nr + 1) + j)]],
      [i \in 0..(nz - 1) |-> [j \in 0..nr |-> R(j - i)]] }

\* The size of conc_out.
ImageSize(nz, nr) == nz * (2 * nr - 1)

\* conc_out is zero before the first image and holds the previous image
\* afterwards.
ImageInit ==
    /\ \E nz \in 1..ImageMaxNz, nr \in 1..ImageMaxNr, before \in {Zero, R(-7)} :
          \E cc \in ImageFields(nz, nr) :
              image = [nz |-> nz, nr |-> nr, c |-> cc, i |-> 0, j |-> 0,
                       conc_out |-> [x \in 0..(ImageSize(nz, nr) - 1) |-> before],
                       conc_min |-> cc[0][0], conc_max |-> cc[0][0],
                       stray |-> {}, pc |-> "cells"]
    /\ SolverIdle
    /\ ConvIdle
    /\ ObjIdle
    /\ MainIdle
    /\ GeometryIdle
    /\ ResampleIdle
    /\ SourcesIdle
    /\ TheoryIdle
    /\ NamesIdle

\* The two elements of conc_out that the pass for cell (i, j) assigns.
ImageTargets(m) ==
    {INDEX_FULL_P(m.nr, m.i, m.j), INDEX_FULL_N(m.nr, m.i, m.j)}

\* One pass of the inner loop.  An assignment outside conc_out is undefined
\* behaviour: the indices are recorded and the block is not followed on.
ImageCell ==
    /\ image # <<>>
    /\ image.pc = "cells"
    /\ image.j < image.nr + 1
    /\ image' =
          [image EXCEPT
              !.conc_min = RMin(image.c[image.i][image.j], image.conc_min),
              !.conc_max = RMax(image.c[image.i][image.j], image.conc_max),
              !.conc_out = [x \in DOMAIN image.conc_out |->
                               IF x \in ImageTargets(image)
                               THEN image.c[image.i][image.j]
                               ELSE image.conc_out[x]],
              !.stray = ImageTargets(image) \ DOMAIN image.conc_out,
              !.pc = IF ImageTargets(image) \subseteq DOMAIN image.conc_out
                     THEN "cells" ELSE "undefined",
              !.i = IF image.i + 1 < image.nz THEN image.i + 1 ELSE 0,
              !.j = IF image.i + 1 < image.nz THEN image.j ELSE image.j + 1]
    /\ UNCHANGED notImage

\* After the loops the image and the line of the info file are written.
ImageWrite ==
    /\ image # <<>>
    /\ image.pc = "cells"
    /\ image.j >= image.nr + 1
    /\ image' = [image EXCEPT !.pc = "written"]
    /\ UNCHANGED notImage

ImageNext ==
    \/ ImageCell
    \/ ImageWrite

SpecImage == ImageInit /\ [][ImageNext]_vars

\* The image is a mirrored copy of the field, column 1 in the centre.
Mirrored(m) ==
    \A i \in 0..(m.nz - 1), d \in 0..(m.nr - 1) :
        /\ m.conc_out[i * (2 * m.nr - 1) + m.nr - 1 + d] = m.c[i][d + 1]
        /\ m.conc_out[i * (2 * m.nr - 1) + m.nr - 1 - d] = m.c[i][d + 1]

\* conc_min and conc_max are values of the field that bound all of them.
Extremes(m) ==
    /\ \E i \in 0..(m.nz - 1), j \in 0..m.nr : m.c[i][j] = m.conc_min
    /\ \E i \in 0..(m.nz - 1), j \in 0..m.nr : m.c[i][j] = m.conc_max
    /\ \A i \in 0..(m.nz - 1), j \in 0..m.nr :
          RLe(m.conc_min, m.c[i][j]) /\ RLe(m.c[i][j], m.conc_max)

\* The block gives the image that the solver's step of Spec stores.
ImageAsInSolver ==
    (image # <<>> /\ image.pc = "written") =>
        \A before \in {Zero, R(-7)} :
            image.conc_out = L3_Image(image, image.c,
                                      [x \in DOMAIN image.conc_out |-> before])

(* C13: every image written is a mirrored copy of the field, of shape      *)
(* nz x (2*nr-1): out[i][nr-1+d] = out[i][nr-1-d] = c[i][d+1] for every    *)
(* row i and d in 0..nr-1; every element assigned lies inside the array;   *)
(* the minimum and maximum reported are those of the field.                *)
C13_MirroredImage ==
    image # <<>> =>
        /\ image.stray = {}
        /\ image.pc # "undefined"
        /\ image.pc = "written" => (Mirrored(image) /\ Extremes(image))

\* With nr = 1 the first pass has assigned the element before the array.
C13_Witness ==
    /\ image # <<>>
    /\ image.nr = 1
    /\ image.pc = "undefined"
    /\ -1 \in image.stray

(***************************************************************************)
(* Properties of Spec about the source delay and the probe samples.        *)
(***************************************************************************)
\* The source delay in steps.
DelaySteps == LRound(RDiv(args.sd, args.dt))

\* What the check of the delay does, in a step of the run.
DelayChecked ==
    /\ pc = "start" =>
          IF DelaySteps >= args.nt
          THEN /\ pc' = "error"
               /\ c' = args.s
               /\ UNCHANGED <<k, p, image_counter, conc_out, info>>
          ELSE pc' = "loop"
    /\ pc' = "error" => pc = "start"
    /\ pc = "error" => pc' = "error"

(* C14: if the source delay in steps, round(sdelay/dt), is at least nt the *)
(* solver ends in the fatal error before any pass of the time loop and     *)
(* before it writes any probe sample; if it is less than nt the solver     *)
(* does not raise this error.                                              *)
C14_DelayError == [][DelayChecked]_vars

\* fit-layer's solver has stopped with the delay equal to the run, the
\* samples of the solve before still in p.
C14_Witness ==
    /\ prog = "fit-layer"
    /\ pc = "error"
    /\ DelaySteps = args.nt
    /\ k = 0
    /\ \A kk \in DOMAIN p : p[kk] = Stale

\* The source duration in steps.
DurationSteps == LRound(RDiv(args.st, args.dt))

\* Step kk is one of the steps nds <= kk < nds + ns.
ActiveStep(kk) == DelaySteps <= kk /\ kk < DelaySteps + DurationSteps

\* The field cc with the source field added.
WithSource(cc) ==
    [i \in 0..(args.nz - 1) |-> [j \in 0..args.nr |-> RAdd(cc[i][j], args.s[i][j])]]

\* The steps of the loop in which the code's test of the time holds.
SourceSteps ==
    {kk \in DelaySteps..(args.nt - 1) :
        IF prog = "3layer" THEN L3_SourceOn(args, kk) ELSE FL_SourceOn(args, kk)}

\* What a step of the run does with the source field.
SourceApplied ==
    /\ (pc = "start" /\ pc' = "loop") => c' = args.s
    /\ (pc = "loop" /\ k < args.nt /\ prog = "fit-layer") =>
          c' = FL_Symmetry(args, FL_Clearance(args,
                   IF ActiveStep(k) THEN WithSource(FL_Diffuse(args, c))
                   ELSE FL_Diffuse(args, c)))
    /\ (pc = "loop" /\ k < args.nt /\ prog = "3layer") =>
          c' = L3_Symmetry(args, L3_Clearance(args,
                   IF ActiveStep(k) THEN WithSource(L3_Diffuse(args, c))
                   ELSE L3_Diffuse(args, c)))
    /\ (pc = "loop" /\ k < args.nt) => (k \in SourceSteps <=> ActiveStep(k))
    /\ (pc' = "done" /\ DelaySteps + DurationSteps < args.nt) =>
          1 + Cardinality(SourceSteps) = DurationSteps + 1

(* C19: the field is seeded once with the source field before the first    *)
(* step; afterwards the source field is added in step k exactly when       *)
(* t[k] + dt/2 < sdelay + sduration, that is in the steps                  *)
(* nds <= k < nds + ns and in no other; with nds + ns < nt the source      *)
(* field is applied ns + 1 times in all, the seed included.                *)
C19_SourceSteps == [][SourceApplied]_vars

\* A run has ended whose source was on in its first step and off in the
\* steps after it.
C19_Witness ==
    /\ pc = "done"
    /\ DurationSteps = 1
    /\ DelaySteps + DurationSteps + 1 < args.nt
    /\ Cardinality(SourceSteps) = 1
    /\ c # args.s

\* The field after kk - nds passes of the loop over the seeded field.
FieldAt(kk) == IF prog = "3layer" THEN L3_Field(args, kk) ELSE FL_Field(args, kk)

(* C20: the probe series holds the field before each step: p[k] = 0 for    *)
(* every k < nds, and for nds <= k < nt p[k] is the value of the probe     *)
(* cell after exactly k - nds steps over the seeded field, recorded before *)
(* step k changes the field; p[nds] is the source field's value there.     *)
C20_ProbeBeforeStep ==
    InLoop =>
        \A kk \in 0..(k - 1) :
            p[kk] = IF kk < DelaySteps THEN Zero
                    ELSE FieldAt(kk)[args.iprobe][args.jprobe]

\* A run of fit-layer with a delay of one step has ended: p[0] is 0, not
\* the sample of the solve before, p[1] is the source field's value at the
\* probe and p[2] the value after one step, which differs.
C20_Witness ==
    /\ prog = "fit-layer"
    /\ pc = "done"
    /\ DelaySteps = 1
    /\ args.nt >= 3
    /\ p[0] = Zero
    /\ p[1] = args.s[args.iprobe][args.jprobe]
    /\ p[2] # p[1]
    /\ p[2] = FL_Step(args, args.s, 1)[args.iprobe][args.jprobe]

(***************************************************************************)
(* Specification SpecSources: the block of 3layer's main that adds the     *)
(* additional sources to the source field s, one action per pass of its    *)
(* loop.  Amounts are in units of trn*dt*4/(FARADAY*PI*dr^2*dz), the       *)
(* factor common to all of them.                                           *)
(***************************************************************************)
MaxSources == 2

\* Positions on both sides of every limit of the grid; halves round away
\* from zero.
SourcePositions ==
    [sz : {Q(-1, 2), Zero, One, R(2), Q(5, 2)},
     sr : {R(-2), R(-1), Zero, One, Q(3, 2)},
     crnt : {One}]

SourceLists == UNION {[1..n -> SourcePositions] : n \in 0..MaxSources}

\* alphas[INDEX(i,j)]: the alpha of the layer of row i.
SourcesAlphas(nz, nr, iz1, iz2) ==
    [i \in 0..(nz - 1) |->
        [j \in 0..nr |-> IF i <= iz1 THEN Q(1, 2) ELSE IF i <= iz2 THEN Q(1, 4) ELSE One]]

\* The field s with the first source, of amount 1, at (lround(sz/dz), 1).
SourcesField(nz, nr, shift, dz, alphas) ==
    [i \in 0..(nz - 1) |->
        [j \in 0..nr |->
            IF i = LRound(RDiv(shift, dz)) /\ j = 1 THEN RDiv(One, alphas[i][j]) ELSE Zero]]

SourcesInit ==
    /\ \E list \in SourceLists, shift \in {Zero, One} :
          sources = [nz |-> 3, nr |-> 2, dz |-> One, dr |-> One, coord_shift |-> shift,
                     alphas |-> SourcesAlphas(3, 2, 0, 1),
                     more_sources |-> list, nsource |-> 0,
                     s |-> SourcesField(3, 2, shift, One, SourcesAlphas(3, 2, 0, 1)),
                     pc |-> "sources"]
    /\ SolverIdle
    /\ ConvIdle
    /\ ObjIdle
    /\ MainIdle
    /\ GeometryIdle
    /\ ResampleIdle
    /\ ImageIdle
    /\ TheoryIdle
    /\ NamesIdle

\* isource = lround((new_source.sz + coord_shift)/dz)
isource(m, a) == LRound(RDiv(RAdd(a.sz, m.coord_shift), m.dz))

\* jsource = 1 + lround(new_source.sr/dr)
jsource(m, a) == 1 + LRound(RDiv(a.sr, m.dr))

\* The four checks with column 0 refused as well.
SourceOffGrid(m, i, j) == i < 0 \/ i > m.nz - 1 \/ j < 1 \/ j > m.nr

\* The four checks that end in error().
SourceOutside(m, i, j) == i < 0 \/ i > m.nz - 1 \/ j < 0 \/ j > m.nr

\* s[INDEX(isource,jsource)] += (1.0/alphas[INDEX(isource,jsource)]) * amount
SourceAdded(m, a, i, j) ==
    [m.s EXCEPT ![i][j] = RAdd(m.s[i][j], RMul(RDiv(One, m.alphas[i][j]), a.crnt))]

\* One pass of the loop over the additional sources.  nsource counts from
\* 0; the sequence more_sources from 1.
MainAddSource ==
    /\ sources # <<>>
    /\ sources.pc = "sources"
    /\ sources.nsource < Len(sources.more_sources)
    /\ \E a \in {sources.more_sources[sources.nsource + 1]} :
          IF SourceOutside(sources, isource(sources, a), jsource(sources, a))
          THEN sources' = [sources EXCEPT !.pc = "error"]
          ELSE sources' = [sources EXCEPT
                              !.s = SourceAdded(sources, a, isource(sources, a),
                                                jsource(sources, a)),
                              !.nsource = sources.nsource + 1]
    /\ UNCHANGED notSources

\* After the loop main goes on to the time array and the forward solve.
MainSourcesDone ==
    /\ sources # <<>>
    /\ sources.pc = "sources"
    /\ sources.nsource >= Len(sources.more_sources)
    /\ sources' = [sources EXCEPT !.pc = "solve"]
    /\ UNCHANGED notSources

SourcesNext ==
    \/ MainAddSource
    \/ MainSourcesDone

SpecSources == SourcesInit /\ [][SourcesNext]_vars

\* The nearest grid cell of the source that the next pass handles.
NextSource == sources.more_sources[sources.nsource + 1]

NearestRow == LRound(RDiv(RAdd(NextSource.sz, sources.coord_shift), sources.dz))

NearestColumn == 1 + LRound(RDiv(NextSource.sr, sources.dr))

\* What a step of main does with the source it handles.
SourceHandled ==
    /\ (sources.pc = "sources" /\ sources.nsource < Len(sources.more_sources)) =>
          IF NearestRow \in 0..(sources.nz - 1) /\ NearestColumn \in 0..sources.nr
          THEN /\ sources'.pc = "sources"
               /\ sources'.nsource = sources.nsource + 1
               /\ \A i \in 0..(sources.nz - 1), j \in 0..sources.nr :
                     sources'.s[i][j] =
                        IF i = NearestRow /\ j = NearestColumn
                        THEN RAdd(sources.s[i][j],
                                  RDiv(NextSource.crnt, sources.alphas[i][j]))
                        ELSE sources.s[i][j]
          ELSE /\ sources'.pc = "error"
               /\ sources'.s = sources.s
    /\ sources'.pc = "solve" => sources.nsource = Len(sources.more_sources)
    /\ sources.pc = "error" => sources'.pc = "error"

(* C15: an additional source whose nearest grid cell is outside            *)
(* [0,nz-1] x [0,nr] makes 3layer end in the fatal error before that       *)
(* source is added to the source field and before the forward solve; one   *)
(* whose cell is inside is added to the source field at exactly that cell. *)
C15_SourceInRange == [][SourceHandled]_vars

\* The first additional source was added in column 0 and the second, whose
\* row rounds to nz, has ended the run.
C15_Witness ==
    /\ sources # <<>>
    /\ sources.pc = "error"
    /\ sources.nsource = 1
    /\ jsource(sources, sources.more_sources[1]) = 0
    /\ isource(sources, sources.more_sources[2]) = sources.nz
    /\ sources.s[isource(sources, sources.more_sources[1])][0] # Zero

(***************************************************************************)
(* Specification SpecTheory: one call of rti_theory, one action per pass   *)
(* of its loop, for parameters that include the ones for which ampl or an  *)
(* erfc argument is not a finite number.                                   *)
(***************************************************************************)
TheoryMaxNt == 4

\* A double that is an infinity or a NaN, written as the quotient 1/0: it
\* is no rational and differs from every one of them.
NotFinite == <<1, 0>>

\* ampl divides by 4 PI alpha dstar spdist; sqrt is taken of dstar * tau
\* with tau > 0.
rti_nonfinite(ps, dstar) ==
    RMul(RMul(ps.alpha, dstar), ps.spdist) = Zero \/ RLt(dstar, Zero)

\* A point computed from ampl first and set to zero only if ampl is finite.
rti_valueUnguarded(ps, dstar, tt) ==
    IF rti_nonfinite(ps, dstar) THEN NotFinite
    ELSE rti_point(ps, dstar, tt)

\* One point of the curve in double arithmetic: the assignment of 0. for
\* t[i] <= sdelay uses neither ampl nor erfc.
rti_value(ps, dstar, tt) ==
    IF RLe(tt, ps.sdelay) THEN Zero
    ELSE IF rti_nonfinite(ps, dstar) THEN NotFinite
         ELSE rti_point(ps, dstar, tt)

TheoryInit ==
    /\ \E nt \in 1..TheoryMaxNt, al \in {Zero, Q(1, 2)}, th \in {R(-1), Zero, Q(1, 2)},
          am \in {Zero, One}, sp \in {Zero, One}, sd \in {Zero, One},
          st \in {Q(-1, 2), Zero, Q(1, 2)} :
          theory = [ps |-> [nt |-> nt, spdist |-> sp, samplitude |-> am, sdelay |-> sd,
                            sduration |-> st, dfree |-> One, alpha |-> al, theta |-> th,
                            t |-> TimeArray(nt, Q(1, 2))],
                    i |-> 0,
                    p_theory |-> [x \in 0..(nt - 1) |-> Stale],
                    pc |-> "loop"]
    /\ SolverIdle
    /\ ConvIdle
    /\ ObjIdle
    /\ MainIdle
    /\ GeometryIdle
    /\ ResampleIdle
    /\ ImageIdle
    /\ SourcesIdle
    /\ NamesIdle

\* One pass of the loop.
TheoryPoint ==
    /\ theory # <<>>
    /\ theory.pc = "loop"
    /\ theory.i < theory.ps.nt
    /\ theory' = [theory EXCEPT
                     !.p_theory[theory.i] =
                         rti_value(theory.ps, RMul(theory.ps.theta, theory.ps.dfree),
                                   theory.ps.t[theory.i]),
                     !.i = theory.i + 1]
    /\ UNCHANGED notTheory

TheoryReturn ==
    /\ theory # <<>>
    /\ theory.pc = "loop"
    /\ theory.i >= theory.ps.nt
    /\ theory' = [theory EXCEPT !.pc = "done"]
    /\ UNCHANGED notTheory

TheoryNext ==
    \/ TheoryPoint
    \/ TheoryReturn

SpecTheory == TheoryInit /\ [][TheoryNext]_vars

\* ampl * erfc(spdist / (2 sqrt(dstar * tau))) for the parameters ps.
TheoryTerm(ps, tau) ==
    RMul(RDiv(ps.samplitude, RMul(RMul(ps.alpha, RMul(ps.theta, ps.dfree)), ps.spdist)),
         ErfcSqrt(RDiv(SQR(ps.spdist), RMul(R(4), RMul(RMul(ps.theta, ps.dfree), tau)))))

\* All parameters such that every quantity of the formula is finite.
TheoryFinite(ps) ==
    /\ ps.alpha # Zero /\ ps.spdist # Zero /\ RGt(RMul(ps.theta, ps.dfree), Zero)

\* The points written so far.
TheoryWritten == 0..(theory.i - 1)

(* C16: the homogeneous model is exactly 0 at every sample time            *)
(* t[i] <= sdelay whatever alpha, theta, D_free, the amplitude, the        *)
(* distance and the duration are; a value other than 0 is given only for   *)
(* t[i] > sdelay; the second term is subtracted only for                   *)
(* t[i] > sdelay + sduration.                                              *)
C16_ZeroUntilDelay ==
    theory # <<>> =>
        \A x \in TheoryWritten :
            /\ RLe(theory.ps.t[x], theory.ps.sdelay) => theory.p_theory[x] = Zero
            /\ theory.p_theory[x] # Zero => RGt(theory.ps.t[x], theory.ps.sdelay)
            /\ (RGt(theory.ps.t[x], theory.ps.sdelay) /\ TheoryFinite(theory.ps)) =>
                  theory.p_theory[x] =
                     IF RGt(theory.ps.t[x], RAdd(theory.ps.sdelay, theory.ps.sduration))
                     THEN RSub(TheoryTerm(theory.ps, RSub(theory.ps.t[x], theory.ps.sdelay)),
                               TheoryTerm(theory.ps,
                                          RSub(theory.ps.t[x],
                                               RAdd(theory.ps.sdelay, theory.ps.sduration))))
                     ELSE TheoryTerm(theory.ps, RSub(theory.ps.t[x], theory.ps.sdelay))

\* With alpha = 0 the point at t = sdelay is 0 and the next one is not a
\* finite number.
C16_Witness ==
    /\ theory # <<>>
    /\ theory.ps.alpha = Zero
    /\ theory.pc = "done"
    /\ \E x \in TheoryWritten :
          /\ x > 0
          /\ theory.ps.t[x] = theory.ps.sdelay
          /\ theory.p_theory[x] = Zero
          /\ x + 1 \in TheoryWritten
          /\ theory.p_theory[x + 1] = NotFinite

(***************************************************************************)
(* Specification SpecNames: the block of main that takes the names of the  *)
(* input file and of the default output file from the last argument of     *)
(* the command line.  A string is the sequence of its characters.          *)
(***************************************************************************)
MaxArgLen == 4

FILENAME_MAX == 4096

Characters == {"s", ".", "/"}

\* ".par", ".txt", ".dat"
ExtPar == <<".", "p", "a", "r">>

ExtTxt == <<".", "t", "x", "t">>

ExtDat == <<".", "d", "a", "t">>

\* Every string of up to MaxArgLen characters, and the arguments
\* "./s.par", "../s/s.par" and "s.s.par".
Arguments ==
    UNION {[1..n -> Characters] : n \in 1..MaxArgLen}
        \cup { <<".", "/", "s">> \o ExtPar,
               <<".", ".", "/", "s", "/", "s">> \o ExtPar,
               <<"s", ".", "s">> \o ExtPar }

NamesInit ==
    /\ \E a \in Arguments, pg \in Programs :
          names = [program |-> pg, arg |-> a, infilename |-> <<>>, outfilename |-> <<>>,
                   pc |-> "names"]
    /\ SolverIdle
    /\ ConvIdle
    /\ ObjIdle
    /\ MainIdle
    /\ GeometryIdle
    /\ ResampleIdle
    /\ ImageIdle
    /\ SourcesIdle
    /\ TheoryIdle

\* get_filename: if (strlen(in) < (FILENAME_MAX - 4)) strcpy(out, in);
get_filename(in) == in

\* else error("Filename length is too long")
FilenameTooLong(in) == ~(Len(in) < FILENAME_MAX - 4)

\* index(str, '.'): the position of the first '.', 0 for NULL.
index(str) ==
    IF \E x \in 1..Len(str) : str[x] = "."
    THEN CHOOSE x \in 1..Len(str) : str[x] = "." /\ \A y \in 1..(x - 1) : str[y] # "."
    ELSE 0

\* rindex(str, '.'): the position of the last '.', 0 for NULL.
rindex(str) ==
    IF \E x \in 1..Len(str) : str[x] = "."
    THEN CHOOSE x \in 1..Len(str) :
            str[x] = "." /\ \A y \in (x + 1)..Len(str) : str[y] # "."
    ELSE 0

\* get_io_filenames: strcat of both extensions if no '.' was found, else
\* strcpy of the output extension at the '.' found.
get_io_filenames(argstring, inf_extension, outf_extension) ==
    IF index(get_filename(argstring)) = 0
    THEN [infilename |-> get_filename(argstring) \o inf_extension,
          outfilename |-> get_filename(argstring) \o outf_extension]
    ELSE [infilename |-> get_filename(argstring),
          outfilename |-> SubSeq(get_filename(argstring), 1,
                                 index(get_filename(argstring)) - 1) \o outf_extension]

\* 3layer: get_io_filenames(argv[argc-1], ".par", ".dat", ...)
L3_MainNames ==
    /\ names # <<>>
    /\ names.program = "3layer"
    /\ names.pc = "names"
    /\ IF FilenameTooLong(names.arg)
       THEN names' = [names EXCEPT !.pc = "error"]
       ELSE names' = [names EXCEPT
                         !.infilename = get_io_filenames(names.arg, ExtPar, ExtDat).infilename,
                         !.outfilename = get_io_filenames(names.arg, ExtPar, ExtDat).outfilename,
                         !.pc = "open"]
    /\ UNCHANGED notNames

\* fit-layer: the same statements in main, with ".txt" and ".dat".
FL_MainNames ==
    /\ names # <<>>
    /\ names.program = "fit-layer"
    /\ names.pc = "names"
    /\ IF index(names.arg) = 0
       THEN names' = [names EXCEPT !.infilename = names.arg \o ExtTxt,
                                   !.outfilename = names.arg \o ExtDat,
                                   !.pc = "open"]
       ELSE names' = [names EXCEPT !.infilename = names.arg,
                                   !.outfilename = SubSeq(names.arg, 1, index(names.arg) - 1)
                                                      \o ExtDat,
                                   !.pc = "open"]
    /\ UNCHANGED notNames

NamesNext ==
    \/ L3_MainNames
    \/ FL_MainNames

SpecNames == NamesInit /\ [][NamesNext]_vars

\* The position of the last '/' of a path, 0 if it has none.
LastSlash(str) ==
    IF \E x \in 1..Len(str) : str[x] = "/"
    THEN CHOOSE x \in 1..Len(str) :
            str[x] = "/" /\ \A y \in (x + 1)..Len(str) : str[y] # "/"
    ELSE 0

\* The directory part of a path, with its last '/', and the file name.
DirectoryPart(str) == SubSeq(str, 1, LastSlash(str))

FileNamePart(str) == SubSeq(str, LastSlash(str) + 1, Len(str))

\* The file name without its extension, the extension taken from the
\* first or from the last '.' of the file name.
Basenames(str) ==
    { SubSeq(FileNamePart(str), 1, index(FileNamePart(str)) - 1),
      SubSeq(FileNamePart(str), 1, rindex(FileNamePart(str)) - 1) }

DefaultInputExtension == IF names.program = "3layer" THEN ExtPar ELSE ExtTxt

(* C17: for an argument whose file name has an extension the input file is *)
(* the argument and the default output file is the same path with the      *)
(* extension replaced by ".dat", directory and basename kept; for an       *)
(* argument without extension the input file is the argument plus the      *)
(* default input extension and the output file the argument plus ".dat";   *)
(* also when the directory part contains a '.'.                            *)
C17_DefaultOutputName ==
    (names # <<>> /\ names.pc = "open") =>
        IF index(FileNamePart(names.arg)) # 0
        THEN /\ names.infilename = names.arg
             /\ \E b \in Basenames(names.arg) :
                   names.outfilename = DirectoryPart(names.arg) \o b \o ExtDat
        ELSE /\ names.infilename = names.arg \o DefaultInputExtension
             /\ names.outfilename = names.arg \o ExtDat

\* For "./s.par" the default output file of 3layer is ".dat".
C17_Witness ==
    /\ names # <<>>
    /\ names.program = "3layer"
    /\ names.pc = "open"
    /\ names.arg = <<".", "/", "s">> \o ExtPar
    /\ names.infilename = names.arg
    /\ names.outfilename = ExtDat

(***************************************************************************)
(* Properties of SpecConv: convolve3 against the stencil written with      *)
(* neighbours outside the field taken as zero.                             *)
(***************************************************************************)
\* a[i][j], zero outside the field.
Padded(i, j) ==
    IF i \in 0..(conv.M - 1) /\ j \in 0..(conv.N - 1) THEN conv.a[i][j] ELSE Zero

\* scale1 * (up + down + 2 left + 2 right - 6 centre)
AxisStencil(i, j) ==
    RMul(conv.scale1,
         RAdd(RAdd(Padded(i - 1, j), Padded(i + 1, j)),
              RSub(RMul(Two, RAdd(Padded(i, j - 1), Padded(i, j + 1))),
                   RMul(R(6), Padded(i, j)))))

\* scale1 * (up + down + left + right - 4 centre)
\*    + scale2 * invr[j] * (right - left)
OffAxisStencil(i, j) ==
    RAdd(RMul(conv.scale1,
              RAdd(RAdd(Padded(i - 1, j), Padded(i + 1, j)),
                   RSub(RAdd(Padded(i, j - 1), Padded(i, j + 1)),
                        RMul(R(4), Padded(i, j))))),
         RMul(RMul(conv.scale2, conv.invr[j]),
              RSub(Padded(i, j + 1), Padded(i, j - 1))))

ReferenceStencil(i, j) == IF j = 1 THEN AxisStencil(i, j) ELSE OffAxisStencil(i, j)

(* C18: convolve3 is the reference stencil at every cell of the field,     *)
(* neighbours outside the field taken as 0: in column j = 1 it is          *)
(* scale1*(up + down + 2 left + 2 right - 6 centre) without a first-       *)
(* derivative term in every row, the edge rows i = 0 and i = M-1 included, *)
(* and in every other column scale1*(up + down + left + right - 4 centre)  *)
(* + scale2*invr[j]*(right - left).                                        *)
C18_ReferenceStencil ==
    conv.called =>
        \A i \in 0..(conv.M - 1), j \in 0..(conv.N - 1) : conv.out[i][j] = ReferenceStencil(i, j)

\* A field that is 1 at (0,0) only was convolved: in row 0 the axis cell
\* got scale1 for its left neighbour, where the axis stencil gives twice it.
C18_Witness ==
    /\ conv.called
    /\ conv.a = ImpulseField(conv.M, conv.N, 0, 0)
    /\ conv.out[0][1] = conv.scale1
    /\ AxisStencil(0, 1) = RMul(Two, conv.scale1)

(***************************************************************************)
(* Properties of Spec about one pass of the time loop.                     *)
(***************************************************************************)
\* The kappa of the layer of row i.
KappaLayer(i) ==
    IF i <= args.iz1 THEN args.kappa_sr
    ELSE IF i <= args.iz2 THEN args.kappa_sp ELSE args.kappa_so

\* The number of layers that row i belongs to.
LayersOfRow(i) ==
    Cardinality({l \in {"sr", "sp", "so"} :
                    \/ l = "sr" /\ i \in 0..args.iz1
                    \/ l = "sp" /\ i \in (args.iz1 + 1)..args.iz2
                    \/ l = "so" /\ i \in (args.iz2 + 1)..(args.nz - 1)})

\* delta[i,j]: what the stencil gives for the cell, in the sub-grid of its
\* layer or, in homogeneous mode, in the whole field.
Delta3(i, j) ==
    IF args.nolayer THEN L3_dc(args, c)[i][j]
    ELSE IF i <= args.iz1 THEN L3_dc_sr(args, c)[i][j]
    ELSE IF i <= args.iz2 THEN L3_dc_sp(args, c)[i - args.iz1][j]
    ELSE L3_dc_so(args, c)[i - args.iz2][j]

DeltaFit(i, j) ==
    IF args.nolayer THEN FL_dc(args, c)[i][j]
    ELSE IF i <= args.iz1 THEN FL_dc_sr(args, c)[i][j]
    ELSE IF i <= args.iz2 THEN FL_dc_sp(args, c)[i - args.iz1][j]
    ELSE FL_dc_so(args, c)[i - args.iz2][j]

\* The source term of step k for the cell.
Injected(i, j) == IF ActiveStep(k) THEN args.s[i][j] ELSE Zero

\* A pass gives every cell off column 0 its old value plus delta plus the
\* source, times the clearance factor of its layer.
StepFormula ==
    (pc = "loop" /\ k < args.nt) =>
        \A i \in 0..(args.nz - 1), j \in 1..args.nr :
            /\ LayersOfRow(i) = 1
            /\ c'[i][j] =
                  RMul(RAdd(RAdd(c[i][j],
                                 IF prog = "3layer" THEN Delta3(i, j) ELSE DeltaFit(i, j)),
                            Injected(i, j)),
                       RSub(One, RMul(KappaLayer(i), args.dt)))

(* C21: one step computes for every cell (i,j) with j >= 1                 *)
(* new c = (old c + delta + (source active ? s : 0)) * (1 - kappa_layer*dt) *)
(* with kappa_sr for rows i <= iz1, kappa_sp for iz1 < i <= iz2, kappa_so  *)
(* for i > iz2: diffusion, then source, then clearance, so the amount      *)
(* injected in a step is reduced by that step's clearance; every row is in *)
(* exactly one layer.                                                      *)
C21_StepFormula == [][StepFormula]_vars

\* A layered run of 3layer has taken its first step with the source on in
\* a cell of SP, whose kappa is not zero: the cell holds the cleared sum.
C21_Witness ==
    /\ prog = "3layer"
    /\ ~args.nolayer
    /\ pc = "loop"
    /\ k = DelaySteps + 1
    /\ DurationSteps >= 1
    /\ args.kappa_sp # Zero
    /\ args.s[args.iz1 + 1][1] # Zero
    /\ c[args.iz1 + 1][1] =
          RMul(RAdd(RAdd(args.s[args.iz1 + 1][1], L3_dc_sp(args, args.s)[1][1]),
                    args.s[args.iz1 + 1][1]),
               RSub(One, RMul(args.kappa_sp, args.dt)))

\* The weight of a layer at an interface: theta * D_free * alpha.
Weight(theta, alpha) == RMul(RMul(theta, args.dfree), alpha)

\* The flux into the interface from below equals the flux out of it above.
FluxContinuous(w_lo, c_lo, w_up, c_up, cb) ==
    RMul(w_lo, RSub(cb, c_lo)) = RMul(w_up, RSub(c_up, cb))

\* The interface values and sub-grids that the pass about to run builds.
StepCbSR == IF prog = "3layer" THEN L3_cb_sr(args, c) ELSE FL_cb_sr(args, c)
StepCbSO == IF prog = "3layer" THEN L3_cb_so(args, c) ELSE FL_cb_so(args, c)
StepSubSR == IF prog = "3layer" THEN L3_c_sr(args, c) ELSE FL_c_sr(args, c)
StepSubSP == IF prog = "3layer" THEN L3_c_sp(args, c) ELSE FL_c_sp(args, c)
StepSubSO == IF prog = "3layer" THEN L3_c_so(args, c) ELSE FL_c_so(args, c)

LayeredStepDue == pc = "loop" /\ k < args.nt /\ ~args.nolayer

(* C22: in every layered step, at both interfaces and in every column, the *)
(* interface value cb satisfies w_lower*(cb - c_lower) = w_upper*(c_upper  *)
(* - cb) with w = theta*D_free*alpha of each layer, and the ghost row      *)
(* handed to each adjoining sub-grid is 2*cb minus that sub-grid's own     *)
(* adjacent real row.                                                      *)
C22_FluxContinuity ==
    LayeredStepDue =>
        \A j \in 0..args.nr :
            /\ FluxContinuous(Weight(args.theta_sr, args.alpha_sr), c[args.iz1][j],
                              Weight(args.theta_sp, args.alpha_sp), c[args.iz1 + 1][j],
                              StepCbSR[j])
            /\ FluxContinuous(Weight(args.theta_sp, args.alpha_sp), c[args.iz2][j],
                              Weight(args.theta_so, args.alpha_so), c[args.iz2 + 1][j],
                              StepCbSO[j])
            /\ StepSubSR[args.iz1 + 1][j] = RSub(RMul(Two, StepCbSR[j]), c[args.iz1][j])
            /\ StepSubSP[0][j] = RSub(RMul(Two, StepCbSR[j]), c[args.iz1 + 1][j])
            /\ StepSubSP[args.iz2 - args.iz1 + 1][j] =
                  RSub(RMul(Two, StepCbSO[j]), c[args.iz2][j])
            /\ StepSubSO[0][j] = RSub(RMul(Two, StepCbSO[j]), c[args.iz2 + 1][j])

\* A layered step of 3layer is due in which the rows that face each other
\* across the SR/SP interface differ in column 1 and the two layers weigh
\* differently, so that cb is not their plain mean.
C22_Witness ==
    /\ LayeredStepDue
    /\ prog = "3layer"
    /\ k > DelaySteps
    /\ Weight(args.theta_sr, args.alpha_sr) # Weight(args.theta_sp, args.alpha_sp)
    /\ c[args.iz1][1] # c[args.iz1 + 1][1]
    /\ StepCbSR[1] # RDiv(RAdd(c[args.iz1][1], c[args.iz1 + 1][1]), Two)

\* The three layers of f carry the same alpha, theta and kappa.
SameLayers(f) ==
    /\ f.alpha_sp = f.alpha_sr /\ f.alpha_so = f.alpha_sr
    /\ f.theta_sp = f.theta_sr /\ f.theta_so = f.theta_sr
    /\ f.kappa_sp = f.kappa_sr /\ f.kappa_so = f.kappa_sr

\* The arguments f with the parameters lv in all three layers.
OneMedium(f, lv) ==
    [WithLayers(f, lv, lv) EXCEPT !.alpha_sr = lv.alpha, !.theta_sr = lv.theta,
                                  !.kappa_sr = lv.kappa]

\* The layer boundaries are where the layered stepper can take them.
LayeredIndices(f) == 0 <= f.iz1 /\ f.iz1 + 2 <= f.iz2 /\ f.iz2 <= f.nz - 2

\* A pass of fit-layer's solver with identical layers leaves the field that
\* the other stepper leaves, and the two steppers agree on the field at
\* hand for any parameters shared by the three layers.
SameLayersStep ==
    (prog = "fit-layer" /\ pc = "loop" /\ k < args.nt /\ LayeredIndices(args)) =>
        /\ SameLayers(args) =>
              c' = FL_Step([args EXCEPT !.nolayer = ~args.nolayer], c, k)
        /\ \A lv \in LayerValues :
              FL_Step([OneMedium(args, lv) EXCEPT !.nolayer = FALSE], c, k) =
                  FL_Step([OneMedium(args, lv) EXCEPT !.nolayer = TRUE], c, k)

(* C23: when SR, SP and SO carry identical alpha, theta and kappa, then for *)
(* any iz1, iz2 with 0 <= iz1, iz1+2 <= iz2 <= nz-2 the layered and the    *)
(* homogeneous stepper produce the same field after every step, in exact   *)
(* arithmetic.                                                             *)
C23_LayeredEqualsHomogeneous == [][SameLayersStep]_vars

\* A layered run of fit-layer with identical layers has taken its first
\* step from a source field whose rows differ across the SR/SP interface,
\* and holds the field of the homogeneous stepper.
C23_Witness ==
    /\ prog = "fit-layer"
    /\ ~args.nolayer
    /\ SameLayers(args)
    /\ LayeredIndices(args)
    /\ pc = "loop"
    /\ k = FL_nds(args) + 1
    /\ args.s[args.iz1][1] # args.s[args.iz1 + 1][1]
    /\ c # args.s
    /\ c = FL_Step([args EXCEPT !.nolayer = TRUE], args.s, k - 1)

(***************************************************************************)
(* Specification SpecGeometry: the block of main, in 3layer and in         *)
(* fit-layer, that checks the ends of the cylinder, shifts the             *)
(* z-coordinates, and places the layer boundaries, the source and the      *)
(* probe on the grid.  Lengths are in units of 100 microns.                *)
(***************************************************************************)
GeoMaxNz == 5

\* The input: positions relative to the source, which is at z = 0, r = 0.
GeoEnds == { [ez1 |-> R(-2), ez2 |-> R(2)], [ez1 |-> R(-4), ez2 |-> Zero],
             [ez1 |-> One, ez2 |-> R(3)] }

GeoLayers ==
    { [lz1 |-> R(-1), lz2 |-> One], [lz1 |-> Q(-3, 5), lz2 |-> Q(8, 5)],
      [lz1 |-> R(-3), lz2 |-> R(3)], [lz1 |-> R(3), lz2 |-> R(5)],
      [lz1 |-> Q(-1, 2), lz2 |-> Zero] }

GeoProbes == { [pz |-> One, pr |-> Zero], [pz |-> Zero, pr |-> One],
               [pz |-> R(3), pr |-> R(3)], [pz |-> R(-3), pr |-> Zero] }

GeoInputs ==
    { [nz |-> nz, nr |-> 2, rmax |-> R(2), zmax |-> R(4), nolayer |-> nl,
       specified_ez1 |-> se, ez1 |-> e.ez1, ez2 |-> e.ez2,
       lz1 |-> l.lz1, lz2 |-> l.lz2, pz |-> pp.pz, pr |-> pp.pr, sr |-> Zero] :
      nz \in 4..GeoMaxNz, nl \in BOOLEAN, se \in BOOLEAN,
      e \in GeoEnds, l \in GeoLayers, pp \in GeoProbes }

GeometryInit ==
    /\ \E pg \in {"3layer", "fit-layer"}, o \in GeoInputs :
          geometry = [prog |-> pg, o |-> o, pc |-> "check",
                      iz1 |-> 0, iz2 |-> 0, iprobe |-> -1, jprobe |-> -1,
                      isource |-> -1, jsource |-> -1]
    /\ SolverIdle
    /\ ConvIdle
    /\ ObjIdle
    /\ MainIdle
    /\ ImageIdle
    /\ SourcesIdle
    /\ TheoryIdle
    /\ NamesIdle
    /\ ResampleIdle

\* if (specified_ez1) { if (ez1 > 0) error ... if (ez2 < lz2) error }
BadEnds(o) ==
    /\ o.specified_ez1
    /\ \/ RGt(o.ez1, Zero)
       \/ RLt(o.ez2, Zero)
       \/ RGt(o.ez1, o.lz1)
       \/ RLt(o.ez2, o.lz2)

\* zmax = ez2 + (-ez1) when the ends are given.
main_zmax(o) == IF o.specified_ez1 THEN RAdd(o.ez2, RNeg(o.ez1)) ELSE o.zmax

coord_shift(o) ==
    IF o.specified_ez1 THEN RNeg(o.ez1)
    ELSE RDiv(RSub(main_zmax(o), RAdd(o.lz1, o.lz2)), Two)

main_dz(o) == RDiv(main_zmax(o), R(o.nz))

\* dr = rmax / nr; if (fabs(dr - dz) > 1.0e-15) dr = dz;
geo_dr(o) == IF RDiv(o.rmax, R(o.nr)) # main_dz(o) THEN main_dz(o) ELSE RDiv(o.rmax, R(o.nr))

\* round(x) of math.h, as a rational.
Round(x) == R(LRound(x))

\* (long) x: the fraction is dropped.
Truncate(x) ==
    CHOOSE r \in {IF a[1] < 0 THEN -((-a[1]) \div a[2]) ELSE a[1] \div a[2] : a \in {x}} : TRUE

\* sz, pz, pr after sz = round(sz / dz) * dz, and so on.
geo_sz(o) == RMul(Round(RDiv(coord_shift(o), main_dz(o))), main_dz(o))

geo_pz(o) == RMul(Round(RDiv(RAdd(o.pz, coord_shift(o)), main_dz(o))), main_dz(o))

geo_pr(o) == RMul(Round(RDiv(o.pr, geo_dr(o))), geo_dr(o))

\* 3layer: iz1 = (int) round((lz1 / dz)), of the shifted lz1.
L3_iz(lz, dz) == LRound(RDiv(lz, dz))

\* fit-layer: iz1 = (long) (lz1 / dz).
FL_iz(lz, dz) == Truncate(RDiv(lz, dz))

main_iz(pg, lz, dz) == IF pg = "3layer" THEN L3_iz(lz, dz) ELSE FL_iz(lz, dz)

\* The indices that main computes for the solver.
GridIndices(pg, o) ==
    [iz1 |-> main_iz(pg, RAdd(o.lz1, coord_shift(o)), main_dz(o)),
     iz2 |-> main_iz(pg, RAdd(o.lz2, coord_shift(o)), main_dz(o)),
     isource |-> LRound(RDiv(geo_sz(o), main_dz(o))),
     jsource |-> 1 + LRound(RDiv(o.sr, geo_dr(o))),
     iprobe |-> LRound(RDiv(geo_pz(o), main_dz(o))),
     jprobe |-> 1 + LRound(RDiv(geo_pr(o), geo_dr(o))),
     nolayer |-> o.nolayer]

\* What the block leaves: the checks of the ends, the shift, the indices,
\* the check of the layer thickness.
Placed(pg, g) ==
    IF BadEnds(g.o) THEN [g EXCEPT !.pc = "error"]
    ELSE IF ThinLayer(GridIndices(pg, g.o))
    THEN [g EXCEPT !.pc = "error",
                   !.iz1 = GridIndices(pg, g.o).iz1,
                   !.iz2 = GridIndices(pg, g.o).iz2]
    ELSE [g EXCEPT !.pc = "solve",
                   !.iz1 = GridIndices(pg, g.o).iz1,
                   !.iz2 = GridIndices(pg, g.o).iz2,
                   !.isource = GridIndices(pg, g.o).isource,
                   !.jsource = GridIndices(pg, g.o).jsource,
                   !.iprobe = GridIndices(pg, g.o).iprobe,
                   !.jprobe = GridIndices(pg, g.o).jprobe]

\* The block in 3layer's main.
L3_MainGeometry ==
    /\ geometry # <<>>
    /\ geometry.pc = "check"
    /\ geometry.prog = "3layer"
    /\ geometry' = Placed("3layer", geometry)
    /\ UNCHANGED notGeometry

\* The block in fit-layer's main.
FL_MainGeometry ==
    /\ geometry # <<>>
    /\ geometry.pc = "check"
    /\ geometry.prog = "fit-layer"
    /\ geometry' = Placed("fit-layer", geometry)
    /\ UNCHANGED notGeometry

GeometryNext == L3_MainGeometry \/ FL_MainGeometry

SpecGeometry == GeometryInit /\ [][GeometryNext]_vars

(***************************************************************************)
(* Properties of SpecGeometry.                                             *)
(***************************************************************************)
\* The run passed the checks: the solver will be called with the indices.
GeometryAccepted == geometry # <<>> /\ geometry.pc = "solve"

\* The layer boundaries are where the stepper of the mode can take them.
BoundariesInGrid ==
    IF geometry.o.nolayer
    THEN 0 <= geometry.iz1 /\ geometry.iz1 <= geometry.iz2
         /\ geometry.iz2 <= geometry.o.nz - 1
    ELSE 0 <= geometry.iz1 /\ geometry.iz1 + 2 <= geometry.iz2
         /\ geometry.iz2 <= geometry.o.nz - 2

ProbeInGrid ==
    /\ 0 <= geometry.iprobe /\ geometry.iprobe <= geometry.o.nz - 1
    /\ 1 <= geometry.jprobe /\ geometry.jprobe <= geometry.o.nr

SourceInGrid == 0 <= geometry.isource /\ geometry.isource <= geometry.o.nz - 1

(* C24: for every configuration that passes the pre-run validation of      *)
(* 3layer or fit-layer the indices handed to the stepper are inside the    *)
(* grid: 0 <= iz1, iz1+2 <= iz2 <= nz-2 (homogeneous mode: 0 <= iz1 <= iz2 *)
(* <= nz-1), 0 <= iprobe <= nz-1, 1 <= jprobe <= nr, 0 <= isource <= nz-1, *)
(* so that no step reads or writes outside the field or a sub-grid.        *)
C24_IndicesInGrid ==
    GeometryAccepted => BoundariesInGrid /\ ProbeInGrid /\ SourceInGrid

\* 3layer accepted ends of the cylinder with the source on the upper end,
\* and the source row is nz, one row beyond the field.
C24_Witness ==
    /\ GeometryAccepted
    /\ geometry.prog = "3layer"
    /\ geometry.o.specified_ez1
    /\ geometry.isource = geometry.o.nz

\* The boundary rows that each program derives from the input at hand.
BoundaryRows(pg) ==
    <<GridIndices(pg, geometry.o).iz1, GridIndices(pg, geometry.o).iz2>>

(* C25: both programs discretize a layer boundary in the same way: for the *)
(* same shifted boundary positions lz1, lz2 and the same dz, 3layer and    *)
(* fit-layer derive the same boundary row indices iz1 and iz2.             *)
C25_SameBoundaryRows ==
    GeometryAccepted =>
        /\ <<geometry.iz1, geometry.iz2>> = BoundaryRows("3layer")
        /\ <<geometry.iz1, geometry.iz2>> = BoundaryRows("fit-layer")

\* fit-layer accepted an input and placed a boundary in another row than
\* 3layer does for the same input.
C25_Witness ==
    /\ GeometryAccepted
    /\ geometry.prog = "fit-layer"
    /\ 0 <= geometry.iz1
    /\ geometry.iz2 <= geometry.o.nz - 2
    /\ <<geometry.iz1, geometry.iz2>> = BoundaryRows("fit-layer")
    /\ <<geometry.iz1, geometry.iz2>> # BoundaryRows("3layer")

(***************************************************************************)
(* Properties of SpecObj about the source field and the layer parameters   *)
(* of the solves that the objective runs.                                  *)
(***************************************************************************)
\* main of fit-layer: s[INDEX(isource,jsource)] = (1.0 / alphas[...]) * sa
\* * dt * 4.0 / (PI * SQR(dr) * dz), with sa given as a multiple of PI.
FL_MainSource(sa_over_pi, alpha, dt, dr, dz) ==
    RDiv(RMul(RMul(RMul(RDiv(One, alpha), sa_over_pi), dt), R(4)), RMul(SQR(dr), dz))

\* The source cell of the runs of SpecObj, and the amplitude (over PI) for
\* which main fills it with the amount it holds: alpha is 1/2 in the layer
\* of the cell, dt = dr = dz = 1.
ObjSource == <<2, 1>>

ObjAmplitude == Q(1, 8)

\* alpha of the layer of row i, as the struct holds it.
AlphaInForce(ps, i) ==
    IF ps.nolayer \/ i <= ps.iz1 THEN ps.alpha_sr
    ELSE IF i <= ps.iz2 THEN ps.alpha_sp ELSE ps.alpha_so

\* The amount that the solve just made injected in the source cell.
Injection == param_struct.s[ObjSource[1]][ObjSource[2]]

(* C26: in every forward solve run by the fit objective the amount         *)
(* injected at the source cell is samplitude*dt*4/(pi*dr^2*dz*alpha) with  *)
(* the alpha in force during that solve for the layer of the source cell;  *)
(* when the source cell is in SP it follows the candidate's alpha_sp.      *)
C26_SourceFollowsAlpha ==
    Len(calls) >= 1 =>
        Injection = FL_MainSource(ObjAmplitude, AlphaInForce(param_struct, ObjSource[1]),
                                  param_struct.dt, param_struct.dr, param_struct.dr)

\* A solve of the layer model was made for a candidate whose alpha is not
\* the configured one, with the source cell in SP: the amount injected is
\* the one main computed from the configured alpha_sp.
C26_Witness ==
    /\ Len(calls) = 1
    /\ ~param_struct.nolayer
    /\ param_struct.iz1 < ObjSource[1] /\ ObjSource[1] <= param_struct.iz2
    /\ param_struct.alpha_sp = calls[1].x[1]
    /\ param_struct.alpha_sp # Uniform.alpha_sp
    /\ Injection = FL_MainSource(ObjAmplitude, Uniform.alpha_sp, param_struct.dt,
                                 param_struct.dr, param_struct.dr)
    /\ Injection # FL_MainSource(ObjAmplitude, param_struct.alpha_sp, param_struct.dt,
                                 param_struct.dr, param_struct.dr)

\* The layer parameters main configured for the runs of SpecObj.
Configured == ObjMedium.l

\* What a call of the objective does to the layer parameters of the struct
\* that its solve is run with.
CallFrame ==
    pending # <<>> =>
        /\ param_struct'.kappa_sp = Head(pending)[3]
        /\ param_struct.opt_global_kappa =>
              /\ param_struct'.kappa_sr = Head(pending)[3]
              /\ param_struct'.kappa_so = Head(pending)[3]
        /\ ~param_struct.opt_global_kappa =>
              /\ param_struct'.kappa_sr = Configured.kappa_sr
              /\ param_struct'.kappa_so = Configured.kappa_so
        /\ param_struct'.alpha_sr = param_struct.alpha_sr
        /\ param_struct'.theta_sr = param_struct.theta_sr
        /\ param_struct'.alpha_so = param_struct.alpha_so
        /\ param_struct'.theta_so = param_struct.theta_so
        /\ param_struct'.alpha_sr = Configured.alpha_sr
        /\ param_struct'.theta_sr = Configured.theta_sr
        /\ param_struct'.alpha_so = Configured.alpha_so
        /\ param_struct'.theta_so = Configured.theta_so

(* C27: with the global-kappa mode active every solve of the objective     *)
(* uses kappa_sr = kappa_so = kappa_sp = the candidate's kappa; with the   *)
(* mode inactive kappa_sr and kappa_so keep their configured values; alpha *)
(* and theta of SR and SO are never modified by the objective.             *)
C27_CandidateFrame == [][CallFrame]_vars

\* Under the global-kappa mode two candidates with different kappa, neither
\* the configured one, were evaluated; the struct holds the second's kappa
\* in all three layers.
C27_Witness ==
    /\ Len(calls) = 2
    /\ param_struct.opt_global_kappa
    /\ calls[1].x[3] # calls[2].x[3]
    /\ calls[1].x[3] # Configured.kappa_sr
    /\ calls[2].x[3] # Configured.kappa_sr
    /\ param_struct.kappa_sr = calls[2].x[3]
    /\ param_struct.kappa_so = calls[2].x[3]
    /\ param_struct.kappa_sp = calls[2].x[3]

\* The floor of the objectives and values on both sides of it.
Floor == Q(1, 1000)

FloorProbes == {Zero, Q(1, 2000), Floor, Q(1, 999), One}

\* v is what the floor makes of the candidate's x.
Floored(x, v) ==
    /\ RGe(v, Floor)
    /\ RLe(x, Floor) => v = Floor
    /\ RGt(x, Floor) => v = x

\* The interface weights of the struct ps are positive and no interface
\* value divides by zero.
PositiveWeights(ps) ==
    /\ RGt(RMul(FL_dstar(ps.theta_sp, ps.dfree), ps.alpha_sp), Zero)
    /\ RAdd(RMul(FL_dstar(ps.theta_sr, ps.dfree), ps.alpha_sr),
            RMul(FL_dstar(ps.theta_sp, ps.dfree), ps.alpha_sp)) # Zero
    /\ RAdd(RMul(FL_dstar(ps.theta_sp, ps.dfree), ps.alpha_sp),
            RMul(FL_dstar(ps.theta_so, ps.dfree), ps.alpha_so)) # Zero

\* The struct of calc_mse_rti before a call, as far as the call writes it.
RtiStruct == [alpha |-> R(-1), theta |-> R(-1)]

(* C28: the fitted parameters are clamped at a floor: in both objectives   *)
(* the alpha and theta used are at least 0.001, a candidate value at or    *)
(* below 0.001 being replaced by exactly 0.001, so that the interface      *)
(* weights are strictly positive and no interface denominator is zero;     *)
(* kappa is not clamped.                                                   *)
C28_FloorClamp ==
    /\ Len(calls) >= 1 =>
          /\ Floored(calls[Len(calls)].x[1], param_struct.alpha_sp)
          /\ Floored(calls[Len(calls)].x[2], param_struct.theta_sp)
          /\ param_struct.kappa_sp = calls[Len(calls)].x[3]
          /\ PositiveWeights(param_struct)
    /\ \A v \in FloorProbes :
          /\ \A ps \in {FL_Candidate(<<v, v, RNeg(v)>>, param_struct)} :
                /\ Floored(v, ps.alpha_sp)
                /\ Floored(v, ps.theta_sp)
                /\ ps.kappa_sp = RNeg(v)
                /\ PositiveWeights(ps)
          /\ \A ps \in {L3_Candidate(<<v, v>>, RtiStruct)} :
                /\ Floored(v, ps.alpha)
                /\ Floored(v, ps.theta)

\* A candidate with alpha below the floor and a negative kappa was
\* evaluated: the solve ran with alpha_sp = 0.001 and the negative kappa.
C28_Witness ==
    /\ Len(calls) = 2
    /\ RLt(calls[1].x[3], Zero)
    /\ RLe(calls[2].x[1], Zero)
    /\ param_struct.alpha_sp = Floor
    /\ param_struct.kappa_sp = calls[2].x[3]

\* A struct of calc_mse_rti for the run at hand, before its first call.
RtiRun(ps) ==
    [nt |-> ps.nt, spdist |-> Two, samplitude |-> One, sdelay |-> ps.sd,
     sduration |-> ps.st, kappa |-> Zero, dfree |-> ps.dfree,
     alpha |-> R(-1), theta |-> R(-1), t |-> ps.t, p_model |-> DataCurve(ps.nt, One),
     p_theory |-> [kk \in 0..(ps.nt - 1) |-> Zero]]

\* The alpha and theta of a candidate of fit-layer.
RtiCandidate(x) == <<x[1], x[2]>>

\* After a call, the first candidate of the run evaluated once more, on the
\* struct as the calls so far left it, returns what it returned; so does
\* calc_mse_rti on the struct that a call with the latest candidate left.
Reevaluated ==
    Len(calls') > Len(calls) =>
        /\ \A i \in 1..Len(calls) :
              calls[i].x = Head(pending) => calls'[Len(calls')].value = calls[i].value
        /\ ~FL_Fatal(FL_Candidate(calls'[1].x, param_struct'))
        /\ calc_mse_fit_layer(calls'[1].x, param_struct') = calls'[1].value
        /\ Len(calls') = 2 =>
              calc_mse_rti(RtiCandidate(calls'[1].x),
                           L3_Solved(L3_Candidate(RtiCandidate(calls'[2].x),
                                                  RtiRun(param_struct))))
                  = calc_mse_rti(RtiCandidate(calls'[1].x), RtiRun(param_struct))

(* C29: the objective is a function of the candidate only: within a run,   *)
(* two evaluations of calc_mse_fit_layer (or of calc_mse_rti) at the same  *)
(* candidate return the same value whatever was evaluated in between; no   *)
(* state that an evaluation writes (layer parameters, curve buffer, field) *)
(* influences the value of a later one.                                    *)
C29_FunctionOfCandidate == [][Reevaluated]_vars

\* A candidate was evaluated, then another with another value, and the
\* struct holds the second's parameters and curve; evaluating the first
\* again returns the value it returned before.
C29_Witness ==
    /\ Len(calls) = 2
    /\ calls[1].x # calls[2].x
    /\ calls[1].value # calls[2].value
    /\ calls[1].mse # calls[2].mse
    /\ param_struct.alpha_sp = FitFloor(calls[2].x[1])
    /\ calc_mse_fit_layer(calls[1].x, param_struct) = calls[1].value

(***************************************************************************)
(* Specification SpecResample: the block of calc_mse_fit_layer that sums   *)
(* the squared differences of the model curve p[0..nt-1] and the data      *)
(* p_data[0..nd-1], one action per pass of its loop.  A read outside an    *)
(* array is undefined behaviour.                                           *)
(***************************************************************************)
MaxCurve == 8

\* Two curves that differ in every pair of samples.
ResampleModel(nt) == [kk \in 0..(nt - 1) |-> R(kk)]

ResampleData(nd) == [kk \in 0..(nd - 1) |-> R(-2 * kk - 1)]

ResampleInit ==
    /\ \E nt \in 1..MaxCurve, nd \in 1..MaxCurve :
          resample = [nt |-> nt, nd |-> nd, p |-> ResampleModel(nt),
                      p_data |-> ResampleData(nd), i |-> 1, mse |-> Zero,
                      reads |-> <<>>, pc |-> "loop"]
    /\ SolverIdle
    /\ ConvIdle
    /\ ObjIdle
    /\ MainIdle
    /\ ImageIdle
    /\ SourcesIdle
    /\ TheoryIdle
    /\ NamesIdle
    /\ GeometryIdle

\* p_index = (lround) (i * index_scale), index_scale = nlong / nshort
p_index_next(i, nlong, nshort) == LRound(RMul(R(i + 1), Q(nlong, nshort)))

p_index(i, nlong, nshort) == LRound(RMul(R(i), Q(nlong, nshort)))

\* The samples <<k of p, k of p_data>> that pass i of the loop reads.
ResampleReads(r) ==
    IF r.nt > r.nd THEN <<p_index(r.i, r.nt, r.nd), r.i>>
    ELSE <<r.i, p_index(r.i, r.nd, r.nt)>>

\* The curve that drives the loop.
ResampleCount(r) == IF r.nt > r.nd THEN r.nd ELSE r.nt

\* One pass: mse += SQR(p->p[...] - p->p_data[...])
ResamplePass ==
    /\ resample # <<>>
    /\ resample.pc = "loop"
    /\ resample.i < ResampleCount(resample)
    /\ resample' =
          IF /\ ResampleReads(resample)[1] \in 0..(resample.nt - 1)
             /\ ResampleReads(resample)[2] \in 0..(resample.nd - 1)
          THEN [resample EXCEPT
                   !.mse = RAdd(@, SQR(RSub(resample.p[ResampleReads(resample)[1]],
                                            resample.p_data[ResampleReads(resample)[2]]))),
                   !.reads = Append(@, ResampleReads(resample)),
                   !.i = @ + 1]
          ELSE [resample EXCEPT !.reads = Append(@, ResampleReads(resample)),
                                !.pc = "undefined"]
    /\ UNCHANGED notResample

\* After the loop: mse /= nd, or mse /= nt.
ResampleDivide ==
    /\ resample # <<>>
    /\ resample.pc = "loop"
    /\ ~(resample.i < ResampleCount(resample))
    /\ resample' = [resample EXCEPT !.mse = RDiv(@, R(ResampleCount(resample))),
                                    !.pc = "done"]
    /\ UNCHANGED notResample

ResampleNext == ResamplePass \/ ResampleDivide

SpecResample == ResampleInit /\ [][ResampleNext]_vars

(***************************************************************************)
(* Properties of SpecResample.                                             *)
(***************************************************************************)
\* The shorter and the longer of the two lengths.
Shorter == IF resample.nt < resample.nd THEN resample.nt ELSE resample.nd

Longer == IF resample.nt < resample.nd THEN resample.nd ELSE resample.nt

\* The sample of the longer curve and of the shorter curve in a read.
OfLonger(rd) == IF resample.nt > resample.nd THEN rd[1] ELSE rd[2]

OfShorter(rd) == IF resample.nt > resample.nd THEN rd[2] ELSE rd[1]

\* The squared difference of a read.
SquaredError(rd) == SQR(RSub(resample.p[rd[1]], resample.p_data[rd[2]]))

RECURSIVE SumOfReads(_)
SumOfReads(n) ==
    IF n = 0 THEN Zero ELSE RAdd(SumOfReads(n - 1), SquaredError(resample.reads[n]))

(* C30: the resampling indices stay in range for every nt >= 1 and nd >=   *)
(* 1: the shorter curve drives the iteration, every index round(i *        *)
(* lengthRatio) is within 0..length-1 of the longer curve, and the sum     *)
(* runs over i = 1..n-1 of the shorter curve and is divided by n.          *)
C30_ResampleInRange ==
    resample # <<>> =>
        /\ resample.pc # "undefined"
        /\ Len(resample.reads) <= Shorter - 1
        /\ \A n \in 1..Len(resample.reads) :
              /\ OfShorter(resample.reads[n]) = n
              /\ OfLonger(resample.reads[n]) = LRound(RMul(R(n), Q(Longer, Shorter)))
              /\ OfLonger(resample.reads[n]) \in 0..(Longer - 1)
        /\ resample.pc = "done" =>
              /\ Len(resample.reads) = Shorter - 1
              /\ resample.mse = RDiv(SumOfReads(Shorter - 1), R(Shorter))

\* The sum of a model curve of 8 samples against 3 data is done: its last
\* read was sample lround(2 * 8/3) = 5 of the model, with datum 2.
C30_Witness ==
    /\ resample # <<>>
    /\ resample.pc = "done"
    /\ resample.nt = 8
    /\ resample.nd = 3
    /\ resample.reads = << <<3, 1>>, <<5, 2>> >>
    /\ RGt(resample.mse, Zero)

=============================================================================
